---- MODULE Spec2Model ----
(***************************************************************************)
(* A model of src/src/main/mainUtils.ts (class MainUtils): project load    *)
(* and save, object export and import, and the asset pipelines they run.   *)
(*                                                                         *)
(* Every awaited I/O operation is two steps: it is started by the code     *)
(* that calls it and finished by the environment, with success or failure. *)
(* The code between two awaits is one atomic action (single-threaded       *)
(* cooperative scheduling).                                                *)
(***************************************************************************)
EXTENDS Integers, Sequences, FiniteSets, TLC

VARIABLES
    workspace,      \* asset files under <appPath>/temp: tuples <<tree, id, ext>>
    wsProjectJson,  \* content of <appPath>/temp/project.json (a descriptor)
    nextId,         \* the state of the identifier generator
    load,           \* the loadProject calls: call number -> call record
    save,           \* the saveProject call
    memProject,     \* the project object the caller of saveProject holds
    destFiles,      \* archives written by pack: <<destination, descriptor, files>>
    export,         \* the exportObject call
    memObject,      \* the objects of the payload the caller of exportObject holds
    exportDir,      \* the scoped export directory <tempPathForExport(id)>/object
    import,         \* the importObject call
    memResult,      \* the objects of objectResult, the graph importObject builds
    importDir,      \* the scoped unpack directory <tempPathForExport(id)>
    pathWalk,       \* a changeObjectsPath call and the objects it walks
    batch,          \* an importPicturesToTemp / importSoundsToTemp call
    canvas          \* an importPictureFromCanvas call

projectVars == <<wsProjectJson, load, save, memProject>>
exportVars == <<export, memObject, exportDir>>
importVars == <<import, memResult, importDir>>
assetVars == <<pathWalk, batch, canvas>>
objectVars == <<exportVars, importVars, assetVars>>

vars == <<workspace, wsProjectJson, nextId, load, save, memProject, destFiles,
          export, memObject, exportDir, import, memResult, importDir,
          pathWalk, batch, canvas>>

-----------------------------------------------------------------------------
(* Bounds *)

MaxLoads == 2
MaxSaves == 2

-----------------------------------------------------------------------------
(* Strings are modelled as sequences of one-character strings, so that     *)
(* substr, indexOf and extname are computed and not assumed.               *)

Min(a, b) == IF a < b THEN a ELSE b

\* String.prototype.substr(start, length)
Substr(s, start, length) == SubSeq(s, start + 1, Min(start + length, Len(s)))

\* String.prototype.indexOf(needle): 0-based position of the first match, -1 if none
IndexOf(s, needle) ==
    LET hits == { i \in 1..(Len(s) - Len(needle) + 1) :
                    SubSeq(s, i, i + Len(needle) - 1) = needle }
    IN  IF hits = {} THEN -1
        ELSE (CHOOSE i \in hits : \A j \in hits : i <= j) - 1

XmlMarker == <<"<", "x", "m", "l">>
EntMarker == <<".", "e", "n", "t">>

-----------------------------------------------------------------------------
(* File urls.  A url is <<form, n>>:                                       *)
(*   "none"  no fileurl attribute                                          *)
(*   "int"   workspace-resolvable path of asset file n                     *)
(*   "ext"   portable, archive-relative reference to asset file n          *)
(*   "dint"  built-in resource n as the running application refers to it   *)
(*   "dext"  built-in resource n in portable form (./bower_components/..)  *)

NoUrl == <<"none", 0>>

HasUrl(u) == u[1] # "none"
IsInternal(u) == u[1] \in {"int", "dint"}
IsExternal(u) == u[1] \in {"ext", "dext"}

\* Constants.replaceStrategy.fromExternal
FromExternal(u) ==
    CASE u[1] = "ext"  -> <<"int", u[2]>>
      [] u[1] = "dext" -> <<"dint", u[2]>>
      [] OTHER         -> u

\* Constants.replaceStrategy.toExternal
ToExternal(u) ==
    CASE u[1] = "int"  -> <<"ext", u[2]>>
      [] u[1] = "dint" -> <<"dext", u[2]>>
      [] OTHER         -> u

\* Constants.replaceStrategy.toExternalDeleteUrl
ToExternalDeleteUrl(u) ==
    CASE u[1] = "int"  -> <<"ext", u[2]>>
      [] u[1] = "dint" -> <<"dext", u[2]>>
      [] OTHER         -> u

\* replaceStrategy(fileUrl), the strategy being one of Constants.replaceStrategy
Replace(replaceStrategy, fileUrl) ==
    CASE replaceStrategy = "fromExternal" -> FromExternal(fileUrl)
      [] replaceStrategy = "toExternal" -> ToExternal(fileUrl)
      [] replaceStrategy = "toExternalDeleteUrl" -> ToExternalDeleteUrl(fileUrl)

\* Constants.defaultPicturePath / Constants.defaultSoundPath
DefaultPicturePath == { <<"dext", 1>> }
DefaultSoundPath == { <<"dext", 2>> }

-----------------------------------------------------------------------------
(* The object graph.  An asset (picture or sound) is a record              *)
(*   [ref, id, filename, fileurl, ext, extension]                          *)
(* where ref names the JavaScript object (two entries with the same ref    *)
(* are the same object), id is the logical id and filename the identifier  *)
(* that names the asset's files; an attribute the object lacks is "" (ext, *)
(* extension).  An object is a record                                      *)
(*   [name, hasScript, script, hasSprite, pictures, sounds,                *)
(*    selectedPictureId, selectedPicture]                                  *)
(* with selectedPicture the ref of the object it points to.                *)

Asset(ref, id, filename, fileurl, ext) ==
    [ref |-> ref, id |-> id, filename |-> filename, fileurl |-> fileurl,
     ext |-> ext, extension |-> ""]

\* CommonUtils.sanitizeExtension(ext, defaultExt)
SanitizeExtension(ext, defaultExt) == IF ext = "" THEN defaultExt ELSE ext

Object(name, hasScript, script, hasSprite, pictures, sounds) ==
    [name |-> name, hasScript |-> hasScript, script |-> script,
     hasSprite |-> hasSprite, pictures |-> pictures, sounds |-> sounds,
     selectedPictureId |-> 0, selectedPicture |-> 0]

\* lines 124 and 131: an asset's fileurl is replaced when it has one
Replaces_Always(asset) == TRUE
Replaces(asset) == HasUrl(asset.fileurl)

\* lines 123-127 and 130-134: the body of the inner loops, for one asset
ChangePath(asset, replaceStrategy) ==
    IF ~Replaces(asset)
    THEN asset
    ELSE [asset EXCEPT !.fileurl = Replace(replaceStrategy, @)]

\* changeObjectsPath's inner loops: the strategy applied to every asset that
\* has a fileurl.
ChangeAssetsPath(assets, replaceStrategy) ==
    [i \in 1..Len(assets) |-> ChangePath(assets[i], replaceStrategy)]

\* MainUtils.changeObjectsPath: the objects as they are after the walk (the
\* walk mutates them in place).
ChangeObjectsPath(objects, replaceStrategy) ==
    [i \in 1..Len(objects) |->
        IF ~objects[i].hasSprite
        THEN objects[i]
        ELSE [objects[i] EXCEPT
                !.pictures = ChangeAssetsPath(@, replaceStrategy),
                !.sounds = ChangeAssetsPath(@, replaceStrategy)]]

AssetsOf(objects) ==
    UNION { { objects[i].pictures[j] : j \in 1..Len(objects[i].pictures) }
            \cup { objects[i].sounds[j] : j \in 1..Len(objects[i].sounds) }
            : i \in { k \in 1..Len(objects) : objects[k].hasSprite } }

-----------------------------------------------------------------------------
(* Descriptors: what a project.json file holds.                             *)

Descriptor(exists, parseable, hasObjects, objects, savedPath) ==
    [exists |-> exists, parseable |-> parseable, hasObjects |-> hasObjects,
     objects |-> objects, savedPath |-> savedPath]

NoDescriptor == Descriptor(FALSE, FALSE, FALSE, <<>>, <<>>)

ScriptJson == <<"[", "[", "]", "]">>
ScriptXml == <<"<", "x", "m", "l", ">">>
ScriptShort == <<"<", "x">>

UserPicture == Asset(1, 1, 11, <<"ext", 11>>, ".png")
UserSound == Asset(2, 2, 12, <<"ext", 12>>, ".mp3")
DefaultPicture == Asset(3, 3, 1, <<"dext", 1>>, ".png")
PlaceholderPicture == Asset(4, 4, 0, NoUrl, "")
OtherPicture == Asset(5, 5, 13, <<"ext", 13>>, "")
DefaultSound == Asset(6, 6, 2, <<"dext", 2>>, ".mp3")

CurrentObject == Object("cat", TRUE, ScriptJson, TRUE, <<UserPicture, DefaultPicture>>, <<UserSound>>)
LegacyObject == Object("dog", TRUE, ScriptXml, TRUE, <<UserPicture, PlaceholderPicture>>, <<>>)
ShortScriptObject == Object("ant", TRUE, ScriptShort, TRUE, <<UserPicture>>, <<UserSound>>)
NoSpriteObject == Object("text", TRUE, ScriptJson, FALSE, <<>>, <<>>)
NoScriptObject == Object("bad", FALSE, <<>>, TRUE, <<UserPicture>>, <<>>)
OtherObject == Object("bee", TRUE, ScriptJson, TRUE, <<OtherPicture>>, <<DefaultSound>>)
DefaultsObject == Object("box", TRUE, ScriptJson, TRUE, <<DefaultPicture>>, <<DefaultSound>>)
TwoPicturesObject == Object("two", TRUE, ScriptJson, TRUE, <<UserPicture, OtherPicture>>, <<>>)

\* The project.json files the archives given to loadProject may hold.
Descriptors ==
    { NoDescriptor,                                                  \* no project.json
      Descriptor(TRUE, FALSE, FALSE, <<>>, <<>>),                    \* not JSON
      Descriptor(TRUE, TRUE, FALSE, <<>>, <<>>),                     \* no objects attribute
      Descriptor(TRUE, TRUE, TRUE, <<>>, <<>>),                      \* no object
      Descriptor(TRUE, TRUE, TRUE, <<CurrentObject, NoSpriteObject>>, <<"o", ".", "e", "n", "t">>),
      Descriptor(TRUE, TRUE, TRUE, <<LegacyObject, CurrentObject>>, <<>>),
      Descriptor(TRUE, TRUE, TRUE, <<ShortScriptObject>>, <<>>),
      Descriptor(TRUE, TRUE, TRUE, <<CurrentObject, LegacyObject>>, <<>>),
      Descriptor(TRUE, TRUE, TRUE, <<NoScriptObject>>, <<>>) }

\* The files of the user assets of an object graph, as the workspace layout
\* (Constants.tempImagePath, tempThumbnailPath, tempSoundPath) names them.
PictureFiles(a) ==
    { <<"image", a.filename, SanitizeExtension(a.ext, ".png")>>,
      <<"thumb", a.filename, SanitizeExtension(a.ext, ".png")>> }

SoundFiles(a) == { <<"sound", a.filename, SanitizeExtension(a.ext, ".mp3")>> }

IsUserAsset(a) == a.fileurl[1] \in {"ext", "int"}

ObjectFiles(objects) ==
    UNION { UNION { PictureFiles(objects[i].pictures[j]) :
                      j \in { k \in 1..Len(objects[i].pictures) :
                                IsUserAsset(objects[i].pictures[k]) } }
            \cup UNION { SoundFiles(objects[i].sounds[j]) :
                      j \in { k \in 1..Len(objects[i].sounds) :
                                IsUserAsset(objects[i].sounds[k]) } }
            : i \in { k \in 1..Len(objects) : objects[k].hasSprite } }

\* The asset files an archive unpacks under temp/, besides project.json.
ArchiveFiles(d) == ObjectFiles(d.objects)

\* Paths of .ent archives the caller may pass to loadProject.
FilePaths == { <<"a", ".", "e", "n", "t">>, <<"b", ".", "e", "n", "t">> }

-----------------------------------------------------------------------------
(* Awaited operations.  The status of an operation is "none" (not issued), *)
(* "running", "ok" or "err".                                               *)

\* `await op`: the code after it runs once op has completed successfully.
Awaited_NotWaiting(status) == status \in {"running", "ok"}
Awaited(status) == status = "ok"

\* `await op` throws when op has failed.
Thrown(status) == status = "err"

Calls == 1..MaxLoads

LoadSteps == {"reset", "mkdir", "unpack", "read", "convert", "rewrite", "savedPath"}

IdleLoad ==
    [pc |-> "idle", step |-> [s \in LoadSteps |-> "none"], filePath |-> <<>>,
     archive |-> NoDescriptor, data |-> NoDescriptor, promise |-> "none",
     result |-> NoDescriptor, overlaps |-> FALSE]

Settled(p) == load[p].pc \in {"idle", "done", "crashed"}

SaveSteps == {"write", "pack"}

IdleSave ==
    [pc |-> "idle", step |-> [s \in SaveSteps |-> "none"], dest |-> <<>>,
     promise |-> "none", json |-> NoDescriptor, before |-> NoDescriptor,
     count |-> 0]

ExportSteps == {"write", "pack", "remove"}

IdleExport ==
    [pc |-> "idle", step |-> [s \in ExportSteps |-> "none"], filePath |-> <<>>,
     promise |-> "none", err |-> <<"none", 0>>, objectId |-> 0, mem |-> <<>>,
     failed |-> <<>>, json |-> NoDescriptor, before |-> <<>>]

NoDirectory == [exists |-> FALSE, files |-> {}, json |-> NoDescriptor]

ImportSteps == {"mkdir", "unpack", "read", "remove"}

IdleImport ==
    [pc |-> "idle", step |-> [s \in ImportSteps |-> "none"], objectPath |-> <<>>,
     promise |-> "none", err |-> <<"none", 0>>, objectId |-> 0, mem |-> <<>>,
     phase |-> <<>>, archive |-> NoDirectory, data |-> NoDescriptor,
     before |-> <<>>]

IdleWalk ==
    [pc |-> "idle", objects |-> <<>>, before |-> <<>>, replaceStrategy |-> "none",
     i |-> 0, list |-> "none", j |-> 0, calls |-> <<>>, returned |-> "none"]

IdleBatch ==
    [pc |-> "idle", kind |-> "none", filePaths |-> <<>>, mem |-> <<>>,
     failed |-> <<>>, promise |-> "none", err |-> <<"none", 0>>,
     result |-> <<>>, before |-> {}, objectId |-> 0]

IdleCanvas ==
    [pc |-> "idle", data |-> [hasFile |-> FALSE, prevFilename |-> 0, mode |-> "none"],
     pictureId |-> 0, minted |-> 0, image |-> "none", thumb |-> "none",
     size |-> "none", failed |-> <<>>, promise |-> "none",
     err |-> <<"none", 0>>, result |-> Asset(0, 0, 0, NoUrl, ""), before |-> {}]

InitNoAsset ==
    /\ pathWalk = IdleWalk
    /\ batch = IdleBatch
    /\ canvas = IdleCanvas

InitNoObject ==
    /\ export = IdleExport
    /\ memObject = <<>>
    /\ exportDir = NoDirectory
    /\ import = IdleImport
    /\ memResult = <<>>
    /\ importDir = NoDirectory
    /\ InitNoAsset

-----------------------------------------------------------------------------
(* loadProject                                                              *)

\* BlockConverter.convert: the legacy converter, a black box that hands the
\* converted project to its callback.
Convert(project) ==
    [project EXCEPT !.objects =
        [i \in 1..Len(project.objects) |->
            IF Substr(project.objects[i].script, 0, 4) = XmlMarker
            THEN [project.objects[i] EXCEPT !.script = ScriptJson]
            ELSE project.objects[i]]]

\* loadProject, lines 64-69: what the call resolves with for a descriptor in
\* the current format.
ResolveCurrent(project, filePath) ==
    [project EXCEPT !.objects = ChangeObjectsPath(@, "fromExternal"),
                    !.savedPath = filePath]

\* loadProject, lines 56-61: what the call resolves with after conversion.
ResolveConverted_NoSavedPath(convertedProject, filePath) ==
    [convertedProject EXCEPT !.objects = ChangeObjectsPath(@, "fromExternal")]
ResolveConverted(convertedProject, filePath) ==
    [convertedProject EXCEPT !.objects = ChangeObjectsPath(@, "fromExternal"),
                             !.savedPath = filePath]

\* A pipeline of an asset import has not ended, or a write it issued is
\* still running.
InFlight ==
    \/ \E k \in 1..Len(batch.mem) : batch.mem[k].st = "running"
    \/ canvas.image = "running"
    \/ canvas.thumb = "running"

\* lines 38-41: loadProject takes no lock on the workspace before it resets
\* it; no call is held back while an import runs.
WorkspaceLocked_ByImports == InFlight
WorkspaceLocked == FALSE

\* loadProject is called: resetSaveDirectory is issued.  (overlaps notes
\* whether I/O of an import was in flight at that moment.)
LoadProject(p, filePath, archive) ==
    /\ load[p].pc = "idle"
    /\ ~WorkspaceLocked
    /\ \A q \in Calls : q < p => load[q].pc # "idle"
    /\ load' = [load EXCEPT ![p] =
                  [IdleLoad EXCEPT !.pc = "reset", !.step.reset = "running",
                                   !.filePath = filePath, !.archive = archive,
                                   !.promise = "pending", !.overlaps = InFlight]]
    /\ UNCHANGED <<workspace, wsProjectJson, nextId, save, memProject, destFiles, objectVars>>

\* lines 81-83: what resetSaveDirectory leaves of the files under temp
AfterReset_Keep(files) == files
AfterReset(files) == {}

\* FileUtils.removeDirectoryRecursive(<userData>/temp) completes.
ResetFinish(p, ok) ==
    /\ load[p].step.reset = "running"
    /\ load' = [load EXCEPT ![p].step.reset = IF ok THEN "ok" ELSE "err"]
    /\ workspace' = IF ok THEN AfterReset(workspace) ELSE workspace
    /\ wsProjectJson' = IF ok THEN NoDescriptor ELSE wsProjectJson
    /\ UNCHANGED <<nextId, save, memProject, destFiles, objectVars>>

\* line 41 -> 42
LoadAfterReset(p) ==
    /\ load[p].pc = "reset"
    /\ Awaited(load[p].step.reset)
    /\ load' = [load EXCEPT ![p].pc = "mkdir", ![p].step.mkdir = "running"]
    /\ UNCHANGED <<workspace, wsProjectJson, nextId, save, memProject, destFiles, objectVars>>

\* FileUtils.mkdirRecursive(<appPath>/temp) completes.
MkdirFinish(p, ok) ==
    /\ load[p].step.mkdir = "running"
    /\ load' = [load EXCEPT ![p].step.mkdir = IF ok THEN "ok" ELSE "err"]
    /\ UNCHANGED <<workspace, wsProjectJson, nextId, save, memProject, destFiles, objectVars>>

\* line 42 -> 43
LoadAfterMkdir(p) ==
    /\ load[p].pc = "mkdir"
    /\ Awaited(load[p].step.mkdir)
    /\ load' = [load EXCEPT ![p].pc = "unpack", ![p].step.unpack = "running"]
    /\ UNCHANGED <<workspace, wsProjectJson, nextId, save, memProject, destFiles, objectVars>>

\* FileUtils.unpack(filePath, appPath) completes.
UnpackFinish(p, ok) ==
    /\ load[p].step.unpack = "running"
    /\ load' = [load EXCEPT ![p].step.unpack = IF ok THEN "ok" ELSE "err"]
    /\ workspace' = IF ok THEN workspace \cup ArchiveFiles(load[p].archive) ELSE workspace
    /\ wsProjectJson' = IF ok /\ load[p].archive.exists THEN load[p].archive ELSE wsProjectJson
    /\ UNCHANGED <<nextId, save, memProject, destFiles, objectVars>>

\* line 43 -> 45-46: the promise executor issues fs.readFile
LoadAfterUnpack(p) ==
    /\ load[p].pc = "unpack"
    /\ Awaited(load[p].step.unpack)
    /\ load' = [load EXCEPT ![p].pc = "read", ![p].step.read = "running"]
    /\ UNCHANGED <<workspace, wsProjectJson, nextId, save, memProject, destFiles, objectVars>>

\* An awaited operation of lines 41-43 failed: the async function rejects.
LoadAwaitThrows(p) ==
    /\ load[p].pc \in {"reset", "mkdir", "unpack"}
    /\ Thrown(load[p].step[load[p].pc])
    /\ load' = [load EXCEPT ![p].pc = "done", ![p].promise = "rejected"]
    /\ UNCHANGED <<workspace, wsProjectJson, nextId, save, memProject, destFiles, objectVars>>

\* fs.readFile(<temp>/project.json) completes: with the file's content, or
\* with an error (always so when the file is absent).
ReadFinish(p, ok) ==
    /\ load[p].step.read = "running"
    /\ ok => wsProjectJson.exists
    /\ load' = [load EXCEPT ![p].step.read = IF ok THEN "ok" ELSE "err",
                            ![p].data = IF ok THEN wsProjectJson ELSE @]
    /\ UNCHANGED <<workspace, wsProjectJson, nextId, save, memProject, destFiles, objectVars>>

\* line 54
IsLegacy_AnyObject(project) ==
    \E i \in 1..Len(project.objects) :
        Substr(project.objects[i].script, 0, 4) = XmlMarker
IsLegacy(project) ==
    /\ Len(project.objects) >= 1
    /\ Substr(project.objects[1].script, 0, 4) = XmlMarker

\* JSON.parse(data) or the test of line 54 throws: inside the readFile
\* callback, where nothing catches it.
CallbackThrows(data) ==
    \/ ~data.parseable                                     \* JSON.parse: SyntaxError
    \/ ~data.hasObjects                                    \* project.objects[0] of undefined
    \/ Len(data.objects) >= 1 /\ ~data.objects[1].hasScript \* script.substr of undefined

\* The readFile callback, lines 49-72.
ReadCallback(p) ==
    /\ load[p].pc = "read"
    /\ load[p].step.read \in {"ok", "err"}
    /\ load' = [load EXCEPT ![p] =
         IF load[p].step.read = "err"
         THEN [@ EXCEPT !.pc = "done", !.promise = "rejected"]
         ELSE IF CallbackThrows(load[p].data)
         THEN [@ EXCEPT !.pc = "crashed"]
         ELSE IF IsLegacy(load[p].data)
         THEN [@ EXCEPT !.pc = "convert", !.step.convert = "running"]
         ELSE [@ EXCEPT !.pc = "done", !.promise = "resolved",
                        !.step.rewrite = "ok", !.step.savedPath = "ok",
                        !.result = ResolveCurrent(load[p].data, load[p].filePath)]]
    /\ UNCHANGED <<workspace, wsProjectJson, nextId, save, memProject, destFiles, objectVars>>

\* The converter's callback, lines 55-62.
ConvertCallback(p) ==
    /\ load[p].pc = "convert"
    /\ load' = [load EXCEPT ![p] =
         [@ EXCEPT !.pc = "done", !.promise = "resolved", !.step.convert = "ok",
                   !.step.rewrite = "ok", !.step.savedPath = "ok",
                   !.result = ResolveConverted(Convert(load[p].data), load[p].filePath)]]
    /\ UNCHANGED <<workspace, wsProjectJson, nextId, save, memProject, destFiles, objectVars>>

\* The caller of loadProject makes one call at a time.
OneLoadAtATime == \A q \in Calls : Settled(q)

InitShared ==
    /\ workspace \in { {}, { <<"image", 9, ".png">>, <<"thumb", 9, ".png">> } }
    /\ wsProjectJson = NoDescriptor
    /\ nextId = 20
    /\ load = [p \in Calls |-> IdleLoad]
    /\ destFiles = {}

InitLoad ==
    /\ InitShared
    /\ save = IdleSave
    /\ memProject = NoDescriptor
    /\ InitNoObject

NextLoad ==
    \E p \in Calls :
        \/ \E filePath \in FilePaths, archive \in Descriptors :
              OneLoadAtATime /\ LoadProject(p, filePath, archive)
        \/ \E ok \in BOOLEAN : ResetFinish(p, ok)
        \/ LoadAfterReset(p)
        \/ \E ok \in BOOLEAN : MkdirFinish(p, ok)
        \/ LoadAfterMkdir(p)
        \/ \E ok \in BOOLEAN : UnpackFinish(p, ok)
        \/ LoadAfterUnpack(p)
        \/ LoadAwaitThrows(p)
        \/ \E ok \in BOOLEAN : ReadFinish(p, ok)
        \/ ReadCallback(p)
        \/ ConvertCallback(p)

SpecLoad == InitLoad /\ [][NextLoad]_vars

\* Every loadProject call has settled or is idle, so no step of it is pending.
LoadDone(p) == load[p].pc \in {"done", "crashed"}

\* C1: in loadProject the workspace reset completes before the archive is
\* unpacked, the unpack completes before project.json is read (so the
\* descriptor read is the archive's), and the fromExternal rewrite and the
\* savedPath assignment have happened when the promise is resolved; no step
\* starts before the previous one has finished.
C1_LoadChainIsSequential ==
    \A p \in Calls :
        /\ load[p].step.mkdir # "none" => load[p].step.reset = "ok"
        /\ load[p].step.unpack # "none" => load[p].step.mkdir = "ok"
        /\ load[p].step.read # "none" => load[p].step.unpack = "ok"
        /\ load[p].step.read = "ok" => load[p].data = load[p].archive
        /\ load[p].step.convert # "none" => load[p].step.read = "ok"
        /\ load[p].step.rewrite # "none" => load[p].step.read = "ok"
        /\ load[p].promise = "resolved" =>
              /\ load[p].step.reset = "ok" /\ load[p].step.unpack = "ok"
              /\ load[p].step.rewrite = "ok" /\ load[p].step.savedPath = "ok"
              /\ \A a \in AssetsOf(load[p].result.objects) : ~IsExternal(a.fileurl)

\* A second load has resolved, over a workspace the first had filled.
C1_Witness ==
    /\ load[1].promise = "resolved"
    /\ load[2].promise = "resolved"
    /\ load[2].archive # load[1].archive
    /\ AssetsOf(load[2].result.objects) # {}

\* C2: every project a resolved loadProject(filePath) returns has savedPath
\* equal to filePath, for a descriptor in the current format and for one
\* that went through the legacy converter.
C2_SavedPathIsFilePath ==
    \A p \in Calls :
        load[p].promise = "resolved" => load[p].result.savedPath = load[p].filePath

\* A converted project and a current-format project whose descriptor carried
\* another savedPath have both been returned.
C2_Witness ==
    /\ load[1].promise = "resolved" /\ load[1].step.convert = "ok"
    /\ load[2].promise = "resolved" /\ load[2].step.convert = "none"
    /\ load[2].data.savedPath # <<>>
    /\ load[2].data.savedPath # load[2].filePath

\* The descriptor a call has read has a first object whose script starts
\* with the markup marker.
FirstScriptIsMarkup(p) ==
    /\ load[p].step.read = "ok"
    /\ load[p].data.parseable /\ load[p].data.hasObjects
    /\ Len(load[p].data.objects) >= 1
    /\ load[p].data.objects[1].hasScript
    /\ Len(load[p].data.objects[1].script) >= 4
    /\ SubSeq(load[p].data.objects[1].script, 1, 4) = XmlMarker

\* The assets of `after` are those of `was`, every fileurl that was there
\* replaced by its internal form.
RewrittenFromExternal(after, was) ==
    /\ Len(after) = Len(was)
    /\ \A j \in 1..Len(was) :
          after[j] = IF HasUrl(was[j].fileurl)
                     THEN [was[j] EXCEPT !.fileurl = FromExternal(was[j].fileurl)]
                     ELSE was[j]

\* C21: loadProject invokes the legacy converter exactly when the descriptor
\* has a first object whose script starts with '<xml'; whether it ran or not,
\* the graph the call resolves with is the descriptor's graph (the converted
\* one when the converter ran) with the fromExternal rewrite applied to it.
C21_ConverterOnlyForLegacy ==
    \A p \in Calls :
        /\ (load[p].pc \in {"convert", "done", "crashed"} /\ load[p].step.read = "ok") =>
              (load[p].step.convert # "none" <=> FirstScriptIsMarkup(p))
        /\ load[p].step.convert # "none" => FirstScriptIsMarkup(p)
        /\ load[p].promise = "resolved" =>
              LET graph == IF load[p].step.convert = "ok"
                           THEN Convert(load[p].data).objects
                           ELSE load[p].data.objects
                  result == load[p].result.objects
              IN  /\ load[p].step.rewrite = "ok"
                  /\ Len(result) = Len(graph)
                  /\ \A i \in 1..Len(graph) :
                        /\ result[i].script = graph[i].script
                        /\ result[i].hasSprite = graph[i].hasSprite
                        /\ graph[i].hasSprite =>
                              /\ RewrittenFromExternal(result[i].pictures, graph[i].pictures)
                              /\ RewrittenFromExternal(result[i].sounds, graph[i].sounds)
                  /\ load[p].step.convert = "none" =>
                        \A i \in 1..Len(result) :
                            result[i].script = load[p].data.objects[i].script

\* A descriptor whose first object is legacy went through the converter, and
\* one whose second object only is legacy did not.
C21_Witness ==
    /\ load[1].promise = "resolved" /\ load[1].step.convert = "ok"
    /\ load[2].promise = "resolved" /\ load[2].step.convert = "none"
    /\ Len(load[2].data.objects) = 2
    /\ Substr(load[2].data.objects[2].script, 0, 4) = XmlMarker

\* C3: loadProject rejects when unpacking fails, when project.json is
\* absent and when project.json cannot be parsed; in none of these cases
\* does it resolve or stay pending with nothing left to run.
C3_LoadFailuresReject ==
    \A p \in Calls :
        ( /\ LoadDone(p)
          /\ \/ load[p].step.unpack = "err"
             \/ load[p].step.read = "err"
             \/ load[p].step.read = "ok" /\ ~load[p].data.parseable )
        => load[p].promise = "rejected"

-----------------------------------------------------------------------------
(* saveProject                                                              *)

\* Destination paths the caller may pass to saveProject.
DestPaths ==
    { <<"a", ".", "e", "n", "t">>,
      <<"a", ".", "t", "x", "t">>,
      <<"a">>,
      <<"a", ".", "e", "n", "t", "x">>,
      <<"d", ".", "e", "n", "t", "/", "a">> }

\* line 95: the test that lets a destination path through.
AcceptsDestination(destinationPath) == IndexOf(destinationPath, EntMarker) # -1

\* saveProject is called with the project the caller holds: lines 93-104 up
\* to the first await.
SaveProject(destinationPath) ==
    /\ save.pc \in {"idle", "done"}
    /\ save.count < MaxSaves
    /\ memProject.exists
    /\ IF ~AcceptsDestination(destinationPath)
       THEN /\ save' = [IdleSave EXCEPT !.pc = "done", !.promise = "rejected",
                                        !.dest = destinationPath,
                                        !.before = memProject,
                                        !.count = save.count + 1]
            /\ UNCHANGED memProject
       ELSE /\ memProject' = [memProject EXCEPT
                                !.objects = ChangeObjectsPath(@, "toExternal")]
            /\ save' = [IdleSave EXCEPT !.pc = "write", !.promise = "pending",
                                        !.dest = destinationPath,
                                        !.before = memProject,
                                        !.json = memProject',
                                        !.step.write = "running",
                                        !.count = save.count + 1]
    /\ UNCHANGED <<workspace, wsProjectJson, nextId, load, destFiles, objectVars>>

\* FileUtils.writeFile(projectString, <temp>/project.json) completes.
WriteFinish(ok) ==
    /\ save.step.write = "running"
    /\ save' = [save EXCEPT !.step.write = IF ok THEN "ok" ELSE "err"]
    /\ wsProjectJson' = IF ok THEN save.json ELSE wsProjectJson
    /\ UNCHANGED <<workspace, nextId, load, memProject, destFiles, objectVars>>

\* line 104 -> 105
SaveAfterWrite ==
    /\ save.pc = "write"
    /\ Awaited(save.step.write)
    /\ save' = [save EXCEPT !.pc = "pack", !.step.pack = "running"]
    /\ UNCHANGED <<workspace, wsProjectJson, nextId, load, memProject, destFiles, objectVars>>

\* FileUtils.pack(<temp>, destinationPath) completes: the archive holds the
\* workspace as it is.
PackFinish(ok) ==
    /\ save.step.pack = "running"
    /\ save' = [save EXCEPT !.step.pack = IF ok THEN "ok" ELSE "err"]
    /\ destFiles' = IF ok
                    THEN { f \in destFiles : f[1] # save.dest }
                         \cup { <<save.dest, wsProjectJson, workspace>> }
                    ELSE destFiles
    /\ UNCHANGED <<workspace, wsProjectJson, nextId, load, memProject, objectVars>>

\* line 105 -> return
SaveAfterPack ==
    /\ save.pc = "pack"
    /\ Awaited(save.step.pack)
    /\ save' = [save EXCEPT !.pc = "done", !.promise = "resolved"]
    /\ UNCHANGED <<workspace, wsProjectJson, nextId, load, memProject, destFiles, objectVars>>

\* An awaited operation of lines 104-105 failed: the async function rejects.
SaveAwaitThrows ==
    /\ save.pc \in {"write", "pack"}
    /\ Thrown(save.step[save.pc])
    /\ save' = [save EXCEPT !.pc = "done", !.promise = "rejected"]
    /\ UNCHANGED <<workspace, wsProjectJson, nextId, load, memProject, destFiles, objectVars>>

\* saveProject is called on a project that was loaded; the workspace holds
\* what its archive unpacked.
InitSave ==
    /\ nextId = 20
    /\ load = [p \in Calls |-> IdleLoad]
    /\ destFiles = {}
    /\ save = IdleSave
    /\ InitNoObject
    /\ \E d \in Descriptors :
          /\ d.exists /\ ~CallbackThrows(d)
          /\ \E fp \in FilePaths :
                memProject = (IF IsLegacy(d) THEN ResolveConverted(Convert(d), fp)
                                            ELSE ResolveCurrent(d, fp))
          /\ wsProjectJson = d
          /\ workspace = ArchiveFiles(d)

NextSave ==
    \/ \E destinationPath \in DestPaths : SaveProject(destinationPath)
    \/ \E ok \in BOOLEAN : WriteFinish(ok)
    \/ SaveAfterWrite
    \/ \E ok \in BOOLEAN : PackFinish(ok)
    \/ SaveAfterPack
    \/ SaveAwaitThrows

SpecSave == InitSave /\ [][NextSave]_vars

\* path.basename / path.extname of Node.js, which name a path's extension.
Basename(path) ==
    LET slashes == { i \in 1..Len(path) : path[i] = "/" }
        last == IF slashes = {} THEN 0
                ELSE CHOOSE i \in slashes : \A j \in slashes : j <= i
    IN  SubSeq(path, last + 1, Len(path))

ExtName(path) ==
    LET b == Basename(path)
        dots == { i \in 2..Len(b) : b[i] = "." }
    IN  IF dots = {} THEN <<>>
        ELSE SubSeq(b, CHOOSE i \in dots : \A j \in dots : j <= i, Len(b))

\* C4: saveProject called with a destination path that lacks the .ent
\* extension rejects before anything is written: the project is not
\* rewritten, project.json is not written and nothing is packed.
C4_SaveRejectsWithoutExtension ==
    (save.pc # "idle" /\ ExtName(save.dest) # EntMarker) =>
        /\ save.promise = "rejected"
        /\ save.step.write = "none"
        /\ save.step.pack = "none"
        /\ memProject = save.before

\* C5: after a saveProject, every asset reference of the descriptor in the
\* archive is in external form, and every asset reference of the project
\* object the caller passed and still holds is in internal form.
C5_SavedExternalMemoryInternal ==
    save.promise = "resolved" =>
        /\ \E f \in destFiles :
              /\ f[1] = save.dest
              /\ \A a \in AssetsOf(f[2].objects) : ~IsInternal(a.fileurl)
        /\ \A a \in AssetsOf(memProject.objects) : ~IsExternal(a.fileurl)

-----------------------------------------------------------------------------
(* Identifiers                                                               *)

\* MainUtils.createFileId: the identifier the k-th call returns when the
\* generator has handed out the identifiers below counter (uid(8) followed
\* by puid.generate(), which never repeats a value within a run).
NthFileId(counter, k) == counter + k - 1

-----------------------------------------------------------------------------
(* exportObject and the export pipeline                                     *)

\* exportObjectTempFileTo, lines 179-186: the assets in the order the walk
\* reaches them, per object the sounds and then the pictures.  The walk
\* throws at the first object without a sprite.
RECURSIVE ExportWalk(_)
ExportWalk(objects) ==
    IF objects = <<>> \/ ~Head(objects).hasSprite
    THEN <<>>
    ELSE [j \in 1..Len(Head(objects).sounds) |->
            [kind |-> "sound", asset |-> Head(objects).sounds[j]]]
         \o [j \in 1..Len(Head(objects).pictures) |->
            [kind |-> "picture", asset |-> Head(objects).pictures[j]]]
         \o ExportWalk(Tail(objects))

WalkThrows(objects) == \E i \in 1..Len(objects) : ~objects[i].hasSprite

\* lines 208 and 235: the test that makes the pipeline pass an asset through
IsDefaultAsset_Never(kind, asset) == FALSE
IsDefaultAsset(kind, asset) ==
    IF kind = "sound"
    THEN asset.fileurl \in DefaultSoundPath
    ELSE asset.fileurl \in DefaultPicturePath

\* The number of identifiers minted for the first k assets of a walk.
Minted(walk, k) ==
    Cardinality({ j \in 1..k : ~IsDefaultAsset(walk[j].kind, walk[j].asset) })

\* exportSoundTempFileTo / exportPictureTempFileTo up to their first await,
\* for every asset of the walk: a default asset is returned as it is; for
\* any other an identifier is minted and the first copy is issued.
StartExportMembers(walk, counter) ==
    [k \in 1..Len(walk) |->
        IF IsDefaultAsset(walk[k].kind, walk[k].asset)
        THEN [ref |-> walk[k].asset.ref, kind |-> walk[k].kind, st |-> "skip",
              fileId |-> walk[k].asset.filename, ext |-> "", newFileId |-> 0]
        ELSE [ref |-> walk[k].asset.ref, kind |-> walk[k].kind, st |-> "copy1",
              fileId |-> walk[k].asset.filename,
              ext |-> SanitizeExtension(walk[k].asset.ext,
                         IF walk[k].kind = "sound" THEN ".mp3" ELSE ".png"),
              newFileId |-> NthFileId(counter, Minted(walk, k))]]

\* The subtree a member's running copy reads from and writes to.
CopyTree(m) ==
    IF m.kind = "sound" THEN "sound"
    ELSE IF m.st = "copy1" THEN "image" ELSE "thumb"

\* `asset.filename = newFileId` on the object with the given ref.
SetFilenameIn(assets, ref, newFileId) ==
    [j \in 1..Len(assets) |->
        IF assets[j].ref = ref
        THEN [assets[j] EXCEPT !.filename = newFileId]
        ELSE assets[j]]

SetFilename_Keep(objects, ref, newFileId) == objects
SetFilename(objects, ref, newFileId) ==
    [i \in 1..Len(objects) |->
        [objects[i] EXCEPT !.pictures = SetFilenameIn(@, ref, newFileId),
                           !.sounds = SetFilenameIn(@, ref, newFileId)]]

\* Promise.all over the member pipelines: rejected once a member has failed,
\* fulfilled when every member has returned.
PromiseAll_AllSettled(mem) ==
    IF \A k \in 1..Len(mem) : mem[k].st \in {"skip", "done", "failed"} THEN "ok"
    ELSE "running"
PromiseAll(mem) ==
    IF \E k \in 1..Len(mem) : mem[k].st = "failed" THEN "err"
    ELSE IF \A k \in 1..Len(mem) : mem[k].st \in {"skip", "done"} THEN "ok"
    ELSE "running"

\* exportObject is called: lines 141-155 up to the first await.
ExportObject(filePath, mkdirOk) ==
    /\ export.pc = "idle"
    /\ import.pc = "idle"
    /\ IF memObject = <<>>
       THEN \* objects[0].name throws in the async executor: nothing settles
            /\ export' = [IdleExport EXCEPT !.pc = "crashed", !.promise = "pending",
                              !.filePath = filePath, !.before = memObject,
                              !.objectId = NthFileId(nextId, 1)]
            /\ nextId' = nextId + 1
            /\ UNCHANGED <<memObject, exportDir>>
       ELSE LET objects == ChangeObjectsPath(memObject, "toExternalDeleteUrl")
                walk == ExportWalk(objects)
            IN  /\ memObject' = objects
                /\ IF ~mkdirOk
                   THEN \* FileUtils.ensureDirectoryExistence throws
                        /\ export' = [IdleExport EXCEPT !.pc = "done",
                               !.promise = "rejected", !.err = <<"mkdir", 0>>,
                               !.filePath = filePath, !.before = memObject,
                               !.objectId = NthFileId(nextId, 1)]
                        /\ nextId' = nextId + 1
                        /\ UNCHANGED exportDir
                   ELSE /\ exportDir' = [NoDirectory EXCEPT !.exists = TRUE]
                        /\ nextId' = nextId + 1 + Minted(walk, Len(walk))
                        /\ export' = [IdleExport EXCEPT
                               !.pc = IF WalkThrows(objects) THEN "done" ELSE "copy",
                               !.promise = IF WalkThrows(objects) THEN "rejected" ELSE "pending",
                               !.err = IF WalkThrows(objects) THEN <<"TypeError", 0>> ELSE @,
                               !.filePath = filePath, !.before = memObject,
                               !.objectId = NthFileId(nextId, 1),
                               !.mem = StartExportMembers(walk, nextId + 1)]
    /\ UNCHANGED <<workspace, destFiles, projectVars, importVars, assetVars>>

\* FileUtils.copyFile of a member completes: the target file exists, or the
\* copy has failed (always so when the source file is absent).
ExportCopyFinish(k, ok) ==
    LET m == export.mem[k] IN
    /\ m.st \in {"copy1", "copy2"}
    /\ ok => <<CopyTree(m), m.fileId, m.ext>> \in workspace
    /\ exportDir' = IF ok /\ exportDir.exists
                    THEN [exportDir EXCEPT !.files = @ \cup { <<CopyTree(m), m.newFileId, m.ext>> }]
                    ELSE exportDir
    /\ export' = [export EXCEPT
          !.mem[k].st = IF ~ok THEN "failed"
                        ELSE IF m.st = "copy1" THEN "copied1" ELSE "copied2",
          !.failed = IF ok THEN @ ELSE Append(@, k)]
    /\ UNCHANGED <<workspace, nextId, memObject, destFiles, projectVars, importVars, assetVars>>

\* A member resumes after its copy: a picture issues the thumbnail copy
\* (line 253); after its last copy the asset takes the new identifier
\* (lines 224, 255).
ExportMemberResume(k) ==
    LET m == export.mem[k] IN
    /\ m.st \in {"copied1", "copied2"}
    /\ IF m.kind = "picture" /\ m.st = "copied1"
       THEN /\ export' = [export EXCEPT !.mem[k].st = "copy2"]
            /\ UNCHANGED memObject
       ELSE /\ export' = [export EXCEPT !.mem[k].st = "done"]
            /\ memObject' = SetFilename(memObject, m.ref, m.newFileId)
    /\ UNCHANGED <<workspace, nextId, exportDir, destFiles, projectVars, importVars, assetVars>>

\* line 155 -> 157-158: the payload is serialized and the write issued
ExportAfterCopy ==
    /\ export.pc = "copy"
    /\ Awaited(PromiseAll(export.mem))
    /\ export' = [export EXCEPT !.pc = "write", !.step.write = "running",
                     !.json = Descriptor(TRUE, TRUE, TRUE, memObject, <<>>)]
    /\ UNCHANGED <<workspace, nextId, memObject, exportDir, destFiles, projectVars, importVars, assetVars>>

\* FileUtils.writeFile(objectData, objectJsonPath) completes.
ExportWriteFinish(ok) ==
    /\ export.step.write = "running"
    /\ export' = [export EXCEPT !.step.write = IF ok THEN "ok" ELSE "err"]
    /\ exportDir' = IF ok THEN [exportDir EXCEPT !.json = export.json] ELSE exportDir
    /\ UNCHANGED <<workspace, nextId, memObject, destFiles, projectVars, importVars, assetVars>>

\* line 158 -> 159
ExportAfterWrite ==
    /\ export.pc = "write"
    /\ Awaited(export.step.write)
    /\ export' = [export EXCEPT !.pc = "pack", !.step.pack = "running"]
    /\ UNCHANGED <<workspace, nextId, memObject, exportDir, destFiles, projectVars, importVars, assetVars>>

\* FileUtils.pack(exportFile, filePath) completes: the archive holds the
\* export directory as it is.
ExportPackFinish(ok) ==
    /\ export.step.pack = "running"
    /\ export' = [export EXCEPT !.step.pack = IF ok THEN "ok" ELSE "err"]
    /\ destFiles' = IF ok
                    THEN { f \in destFiles : f[1] # export.filePath }
                         \cup { <<export.filePath, exportDir.json, exportDir.files>> }
                    ELSE destFiles
    /\ UNCHANGED <<workspace, nextId, memObject, exportDir, projectVars, importVars, assetVars>>

\* line 159 -> 160
ExportAfterPack ==
    /\ export.pc = "pack"
    /\ Awaited(export.step.pack)
    /\ export' = [export EXCEPT !.pc = "remove", !.step.remove = "running"]
    /\ UNCHANGED <<workspace, nextId, memObject, exportDir, destFiles, projectVars, importVars, assetVars>>

\* FileUtils.removeDirectoryRecursive(<export directory>/..) completes.
ExportRemoveFinish(ok) ==
    /\ export.step.remove = "running"
    /\ export' = [export EXCEPT !.step.remove = IF ok THEN "ok" ELSE "err"]
    /\ exportDir' = IF ok THEN NoDirectory ELSE exportDir
    /\ UNCHANGED <<workspace, nextId, memObject, destFiles, projectVars, importVars, assetVars>>

\* line 160 -> 161
ExportAfterRemove ==
    /\ export.pc = "remove"
    /\ Awaited(export.step.remove)
    /\ export' = [export EXCEPT !.pc = "done", !.promise = "resolved"]
    /\ UNCHANGED <<workspace, nextId, memObject, exportDir, destFiles, projectVars, importVars, assetVars>>

\* lines 162-164: what the catch block does with the directory
AfterCatch(dir) == dir

\* An awaited operation of lines 155-160 failed: the catch block rejects.
ExportAwaitThrows ==
    /\ \/ /\ export.pc = "copy"
          /\ Thrown(PromiseAll(export.mem))
          /\ export' = [export EXCEPT !.pc = "done", !.promise = "rejected",
                           !.err = <<"copy", Head(export.failed)>>]
       \/ /\ export.pc \in ExportSteps
          /\ Thrown(export.step[export.pc])
          /\ export' = [export EXCEPT !.pc = "done", !.promise = "rejected",
                           !.err = <<export.pc, 0>>]
    /\ exportDir' = AfterCatch(exportDir)
    /\ UNCHANGED <<workspace, nextId, memObject, destFiles, projectVars, importVars, assetVars>>

-----------------------------------------------------------------------------
(* importObject                                                             *)

\* The pictures and sounds importObject processes (lines 281-282: an object
\* without a sprite has none), per object the pictures and then the sounds.
\* A member is the pipeline of one asset; result is what its callback returns.
RECURSIVE ImportWalk(_, _)
ImportWalk(objects, i) ==
    IF objects = <<>>
    THEN <<>>
    ELSE LET pictures == IF Head(objects).hasSprite THEN Head(objects).pictures ELSE <<>>
             sounds == IF Head(objects).hasSprite THEN Head(objects).sounds ELSE <<>>
         IN  [j \in 1..Len(pictures) |->
                [obj |-> i, pos |-> j, kind |-> "picture", asset |-> pictures[j], st |-> "wait",
                 newFileId |-> 0, ext |-> "", result |-> pictures[j]]]
             \o [j \in 1..Len(sounds) |->
                [obj |-> i, pos |-> j, kind |-> "sound", asset |-> sounds[j], st |-> "wait",
                 newFileId |-> 0, ext |-> "", result |-> sounds[j]]]
             \o ImportWalk(Tail(objects), i + 1)

\* The members of one kind of the given objects, in order.
MembersOf(mem, objs, kind) ==
    LET Test(m) == m.obj \in objs /\ m.kind = kind
    IN  SelectSeq(mem, Test)

\* The number of identifiers minted for the members of that kind of those
\* objects among the first k members.
MintedIn(mem, objs, kind, k) ==
    Cardinality({ j \in 1..k : /\ mem[j].obj \in objs
                               /\ mem[j].kind = kind
                               /\ ~IsDefaultAsset(kind, mem[j].asset) })

\* The callbacks of lines 286-326 (pictures) or 330-347 (sounds) up to their
\* first await: a default asset is returned as it is; for any other,
\* importPictureToTemp / importSoundToTemp mints an identifier and issues
\* the copy of the asset's file out of the unpack directory.
StartImportMembers(mem, objs, kind, counter) ==
    [k \in 1..Len(mem) |->
        IF ~(mem[k].obj \in objs /\ mem[k].kind = kind)
        THEN mem[k]
        ELSE IF IsDefaultAsset(kind, mem[k].asset)
        THEN [mem[k] EXCEPT !.st = "skip"]
        ELSE [mem[k] EXCEPT
                !.st = "copy1",
                !.ext = SanitizeExtension(mem[k].asset.ext,
                           IF kind = "sound" THEN ".mp3" ELSE ".png"),
                !.newFileId = NthFileId(counter, MintedIn(mem, objs, kind, k))]]

\* lines 289-292 and 319-323: the selected-picture bookkeeping, for the
\* picture with the given logical id and the entry that now stands for it.
SelectPicture_Skip(object, pictureId, entry) == object
SelectPicture(object, pictureId, entry) ==
    IF pictureId = object.selectedPictureId
    THEN [object EXCEPT !.selectedPicture = entry.ref,
                        !.selectedPictureId = entry.id]
    ELSE object

\* The bookkeeping for the default pictures of an object, which are passed
\* through when the pictures are mapped.
RECURSIVE SelectDefaults(_, _)
SelectDefaults(object, pictures) ==
    IF pictures = <<>>
    THEN object
    ELSE SelectDefaults(
            IF IsDefaultAsset("picture", Head(pictures))
            THEN SelectPicture(object, Head(pictures).id, Head(pictures))
            ELSE object,
            Tail(pictures))

\* importPictureToTemp's return value (lines 427-436) with name and id taken
\* from the picture it replaces (lines 314-315): a new object.
NewPicture(m) ==
    [ref |-> m.newFileId, id |-> m.asset.id, filename |-> m.newFileId,
     fileurl |-> <<"int", m.newFileId>>, ext |-> "", extension |-> m.ext]

\* importSoundToTemp's return value (lines 516-525) with name and id taken
\* from the sound it replaces (lines 343-344): a new object.
NewSound(m) ==
    [ref |-> m.newFileId, id |-> m.asset.id, filename |-> m.newFileId,
     fileurl |-> <<"int", m.newFileId>>, ext |-> m.ext, extension |-> ""]

Results(members) == [j \in 1..Len(members) |-> members[j].result]

\* importObject is called: lines 267-272 up to the first await.
ImportObject(objectPath, archive) ==
    /\ import.pc = "idle"
    /\ export.pc = "idle"
    /\ import' = [IdleImport EXCEPT !.pc = "mkdir", !.step.mkdir = "running",
                     !.promise = "pending", !.objectPath = objectPath,
                     !.archive = archive, !.objectId = NthFileId(nextId, 1)]
    /\ nextId' = nextId + 1
    /\ UNCHANGED <<workspace, destFiles, memResult, importDir, projectVars, exportVars, assetVars>>

\* FileUtils.mkdirRecursive(unpackDirectoryPath) completes.
ImportMkdirFinish(ok) ==
    /\ import.step.mkdir = "running"
    /\ import' = [import EXCEPT !.step.mkdir = IF ok THEN "ok" ELSE "err"]
    /\ importDir' = IF ok THEN [NoDirectory EXCEPT !.exists = TRUE] ELSE importDir
    /\ UNCHANGED <<workspace, nextId, destFiles, memResult, projectVars, exportVars, assetVars>>

\* line 272 -> 273
ImportAfterMkdir ==
    /\ import.pc = "mkdir"
    /\ Awaited(import.step.mkdir)
    /\ import' = [import EXCEPT !.pc = "unpack", !.step.unpack = "running"]
    /\ UNCHANGED <<workspace, nextId, destFiles, memResult, importDir, projectVars, exportVars, assetVars>>

\* FileUtils.unpack(objectPath, unpackDirectoryPath) completes.
ImportUnpackFinish(ok) ==
    /\ import.step.unpack = "running"
    /\ import' = [import EXCEPT !.step.unpack = IF ok THEN "ok" ELSE "err"]
    /\ importDir' = IF ok THEN import.archive ELSE importDir
    /\ UNCHANGED <<workspace, nextId, destFiles, memResult, projectVars, exportVars, assetVars>>

\* line 273 -> 276
ImportAfterUnpack ==
    /\ import.pc = "unpack"
    /\ Awaited(import.step.unpack)
    /\ import' = [import EXCEPT !.pc = "read", !.step.read = "running"]
    /\ UNCHANGED <<workspace, nextId, destFiles, memResult, importDir, projectVars, exportVars, assetVars>>

\* FileUtils.readFile(<unpacked>/object.json) completes.
ImportReadFinish(ok) ==
    /\ import.step.read = "running"
    /\ ok => importDir.json.exists
    /\ import' = [import EXCEPT !.step.read = IF ok THEN "ok" ELSE "err",
                               !.data = IF ok THEN importDir.json ELSE @]
    /\ UNCHANGED <<workspace, nextId, destFiles, memResult, importDir, projectVars, exportVars, assetVars>>

\* lines 275-286: object.json is parsed and the callbacks of every object and
\* of every picture run up to their first await.
ImportAfterRead ==
    /\ import.pc = "read"
    /\ Awaited(import.step.read)
    /\ IF ~import.data.parseable \/ ~import.data.hasObjects
       THEN \* JSON.parse or objectResult.objects.map throws inside the try
            /\ import' = [import EXCEPT !.pc = "done", !.promise = "rejected",
                             !.err = <<"parse", 0>>]
            /\ UNCHANGED <<nextId, memResult>>
       ELSE LET objects == import.data.objects
                all == 1..Len(objects)
                walk == ImportWalk(objects, 1)
            IN  /\ memResult' = [i \in all |->
                       SelectDefaults(objects[i],
                           IF objects[i].hasSprite THEN objects[i].pictures ELSE <<>>)]
                /\ import' = [import EXCEPT
                       !.pc = "assets", !.before = objects,
                       !.phase = [i \in all |-> [st |-> "pictures"]],
                       !.mem = StartImportMembers(walk, all, "picture", nextId)]
                /\ nextId' = nextId + MintedIn(walk, all, "picture", Len(walk))
    /\ UNCHANGED <<workspace, destFiles, importDir, projectVars, exportVars, assetVars>>

\* FileUtils.copyFile of a member completes: the file is in the workspace, or
\* the copy has failed (always so when the source file is absent).
ImportCopyFinish(k, ok) ==
    LET m == import.mem[k] IN
    /\ m.st \in {"copy1", "copy2"}
    /\ ok => <<CopyTree(m), m.asset.filename, m.ext>> \in importDir.files
    /\ workspace' = IF ok THEN workspace \cup { <<CopyTree(m), m.newFileId, m.ext>> }
                    ELSE workspace
    /\ import' = [import EXCEPT
          !.mem[k].st = IF ~ok THEN "failed"
                        ELSE IF m.st = "copy1" THEN "copied1" ELSE "copied2"]
    /\ UNCHANGED <<nextId, destFiles, memResult, importDir, projectVars, exportVars, assetVars>>

\* A member resumes after the copy of its file: importPictureToTemp issues
\* the thumbnail copy (line 419), importSoundToTemp the metadata parse
\* (line 514).
ImportMemberResume(k) ==
    /\ import.mem[k].st = "copied1"
    /\ import' = [import EXCEPT
          !.mem[k].st = IF import.mem[k].kind = "picture" THEN "copy2" ELSE "meta"]
    /\ UNCHANGED <<workspace, nextId, destFiles, memResult, importDir, projectVars, exportVars, assetVars>>

\* musicMetadata.parseFile completes.
ImportMetaFinish(k, ok) ==
    /\ import.mem[k].st = "meta"
    /\ import' = [import EXCEPT !.mem[k].st = IF ok THEN "parsed" ELSE "failed"]
    /\ UNCHANGED <<workspace, nextId, destFiles, memResult, importDir, projectVars, exportVars, assetVars>>

\* lines 427-436 and 314-325: importPictureToTemp returns the new picture
\* (imageSizeOf may throw); the callback names it and keeps the selected
\* picture of the object.
ImportPictureReturn(k, sizeOk) ==
    LET m == import.mem[k] IN
    /\ m.kind = "picture"
    /\ m.st = "copied2"
    /\ IF sizeOk
       THEN /\ import' = [import EXCEPT !.mem[k].st = "done",
                                       !.mem[k].result = NewPicture(m)]
            /\ memResult' = [memResult EXCEPT
                  ![m.obj] = SelectPicture(@, m.asset.id, NewPicture(m))]
       ELSE /\ import' = [import EXCEPT !.mem[k].st = "failed"]
            /\ UNCHANGED memResult
    /\ UNCHANGED <<workspace, nextId, destFiles, importDir, projectVars, exportVars, assetVars>>

\* lines 516-525 and 343-346: importSoundToTemp returns the new sound.
ImportSoundReturn(k) ==
    LET m == import.mem[k] IN
    /\ m.kind = "sound"
    /\ m.st = "parsed"
    /\ import' = [import EXCEPT !.mem[k].st = "done", !.mem[k].result = NewSound(m)]
    /\ UNCHANGED <<workspace, nextId, destFiles, memResult, importDir, projectVars, exportVars, assetVars>>

\* line 285 -> 329: the pictures of an object are in; its sounds are mapped.
ObjectAfterPictures(i) ==
    /\ import.phase[i].st = "pictures"
    /\ Awaited(PromiseAll(MembersOf(import.mem, {i}, "picture")))
    /\ import' = [import EXCEPT
          !.phase[i].st = "sounds",
          !.mem = StartImportMembers(@, {i}, "sound", nextId)]
    /\ nextId' = nextId + MintedIn(import.mem, {i}, "sound", Len(import.mem))
    /\ UNCHANGED <<workspace, destFiles, memResult, importDir, projectVars, exportVars, assetVars>>

\* line 329 -> 351-354: the sounds of an object are in; the object takes the
\* new lists and its paths are rewritten.  object.sprite.pictures = ...
\* throws for an object without a sprite.
ObjectAfterSounds(i) ==
    /\ import.phase[i].st = "sounds"
    /\ Awaited(PromiseAll(MembersOf(import.mem, {i}, "sound")))
    /\ IF ~memResult[i].hasSprite
       THEN /\ import' = [import EXCEPT !.phase[i].st = "failed"]
            /\ UNCHANGED memResult
       ELSE /\ import' = [import EXCEPT !.phase[i].st = "done"]
            /\ memResult' = [memResult EXCEPT ![i] =
                  ChangeObjectsPath(
                      <<[@ EXCEPT
                          !.pictures = Results(MembersOf(import.mem, {i}, "picture")),
                          !.sounds = Results(MembersOf(import.mem, {i}, "sound"))]>>,
                      "fromExternal")[1]]
    /\ UNCHANGED <<workspace, nextId, destFiles, importDir, projectVars, exportVars, assetVars>>

\* A picture or a sound of the object has failed: the object's callback
\* rejects.
ObjectThrows(i) ==
    /\ import.phase[i].st \in {"pictures", "sounds"}
    /\ Thrown(PromiseAll(MembersOf(import.mem, {i},
                 IF import.phase[i].st = "pictures" THEN "picture" ELSE "sound")))
    /\ import' = [import EXCEPT !.phase[i].st = "failed"]
    /\ UNCHANGED <<workspace, nextId, destFiles, memResult, importDir, projectVars, exportVars, assetVars>>

\* line 280 -> 357
ImportAfterAssets ==
    /\ import.pc = "assets"
    /\ Awaited(PromiseAll(import.phase))
    /\ import' = [import EXCEPT !.pc = "remove", !.step.remove = "running"]
    /\ UNCHANGED <<workspace, nextId, destFiles, memResult, importDir, projectVars, exportVars, assetVars>>

\* FileUtils.removeDirectoryRecursive(unpackDirectoryPath) completes.
ImportRemoveFinish(ok) ==
    /\ import.step.remove = "running"
    /\ import' = [import EXCEPT !.step.remove = IF ok THEN "ok" ELSE "err"]
    /\ importDir' = IF ok THEN NoDirectory ELSE importDir
    /\ UNCHANGED <<workspace, nextId, destFiles, memResult, projectVars, exportVars, assetVars>>

\* line 357 -> 358
ImportAfterRemove ==
    /\ import.pc = "remove"
    /\ Awaited(import.step.remove)
    /\ import' = [import EXCEPT !.pc = "done", !.promise = "resolved"]
    /\ UNCHANGED <<workspace, nextId, destFiles, memResult, importDir, projectVars, exportVars, assetVars>>

\* An awaited operation of lines 272-357 failed: the catch block rejects.
ImportAwaitThrows ==
    /\ \/ /\ import.pc = "assets"
          /\ Thrown(PromiseAll(import.phase))
          /\ import' = [import EXCEPT !.pc = "done", !.promise = "rejected",
                           !.err = <<"assets", 0>>]
       \/ /\ import.pc \in ImportSteps
          /\ Thrown(import.step[import.pc])
          /\ import' = [import EXCEPT !.pc = "done", !.promise = "rejected",
                           !.err = <<import.pc, 0>>]
    /\ UNCHANGED <<workspace, nextId, destFiles, memResult, importDir, projectVars, exportVars, assetVars>>

\* An object as object.json holds it: selectedPicture is a copy of the
\* selected picture, an object of its own.
Selecting(object, pictureId, copyRef) ==
    [object EXCEPT !.selectedPictureId = pictureId, !.selectedPicture = copyRef]

ObjectArchive(json, objects) ==
    [exists |-> TRUE, files |-> ObjectFiles(objects), json |-> json]

\* The object archives the caller may pass to importObject.
ObjectArchives ==
    { ObjectArchive(Descriptor(TRUE, TRUE, TRUE, objects, <<>>), objects) :
        objects \in { <<Selecting(CurrentObject, 1, 101)>>,
                      <<Selecting(CurrentObject, 3, 101), Selecting(OtherObject, 5, 102)>>,
                      <<Selecting(TwoPicturesObject, 5, 101)>>,
                      <<Selecting(OtherObject, 9, 101), NoSpriteObject>> } }
    \cup { ObjectArchive(Descriptor(TRUE, TRUE, TRUE, <<Selecting(CurrentObject, 1, 101)>>, <<>>), <<>>),
           ObjectArchive(Descriptor(TRUE, FALSE, FALSE, <<>>, <<>>), <<>>),
           ObjectArchive(Descriptor(TRUE, TRUE, FALSE, <<>>, <<>>), <<>>),
           ObjectArchive(NoDescriptor, <<>>) }

\* Payloads the caller may pass to exportObject: objects of an open project,
\* their asset references in internal form.

Payloads ==
    { ChangeObjectsPath(objects, "fromExternal") :
        objects \in { <<>>,
                      <<CurrentObject>>,
                      <<CurrentObject, OtherObject>>,
                      <<OtherObject, NoSpriteObject>>,
                      <<DefaultsObject>> } }

\* Paths of object archives the caller may pass to exportObject and importObject.
ObjectPaths == { <<"c", ".", "e", "o">> }

InitObject ==
    /\ nextId = 20
    /\ load = [p \in Calls |-> IdleLoad]
    /\ save = IdleSave
    /\ memProject = NoDescriptor
    /\ wsProjectJson = NoDescriptor
    /\ destFiles = {}
    /\ export = IdleExport
    /\ exportDir = NoDirectory
    /\ import = IdleImport
    /\ memResult = <<>>
    /\ importDir = NoDirectory
    /\ InitNoAsset
    /\ memObject \in Payloads
    /\ workspace \in { ObjectFiles(memObject), {} }

NextObject ==
    \/ \E filePath \in ObjectPaths, mkdirOk \in BOOLEAN : ExportObject(filePath, mkdirOk)
    \/ \E k \in 1..Len(export.mem), ok \in BOOLEAN : ExportCopyFinish(k, ok)
    \/ \E k \in 1..Len(export.mem) : ExportMemberResume(k)
    \/ ExportAfterCopy
    \/ \E ok \in BOOLEAN : ExportWriteFinish(ok)
    \/ ExportAfterWrite
    \/ \E ok \in BOOLEAN : ExportPackFinish(ok)
    \/ ExportAfterPack
    \/ \E ok \in BOOLEAN : ExportRemoveFinish(ok)
    \/ ExportAfterRemove
    \/ ExportAwaitThrows
    \/ \E objectPath \in ObjectPaths, archive \in ObjectArchives :
          ImportObject(objectPath, archive)
    \/ \E ok \in BOOLEAN : ImportMkdirFinish(ok)
    \/ ImportAfterMkdir
    \/ \E ok \in BOOLEAN : ImportUnpackFinish(ok)
    \/ ImportAfterUnpack
    \/ \E ok \in BOOLEAN : ImportReadFinish(ok)
    \/ ImportAfterRead
    \/ \E k \in 1..Len(import.mem), ok \in BOOLEAN : ImportCopyFinish(k, ok)
    \/ \E k \in 1..Len(import.mem) : ImportMemberResume(k)
    \/ \E k \in 1..Len(import.mem), ok \in BOOLEAN : ImportMetaFinish(k, ok)
    \/ \E k \in 1..Len(import.mem), sizeOk \in BOOLEAN : ImportPictureReturn(k, sizeOk)
    \/ \E k \in 1..Len(import.mem) : ImportSoundReturn(k)
    \/ \E i \in 1..Len(import.phase) : ObjectAfterPictures(i)
    \/ \E i \in 1..Len(import.phase) : ObjectAfterSounds(i)
    \/ \E i \in 1..Len(import.phase) : ObjectThrows(i)
    \/ ImportAfterAssets
    \/ \E ok \in BOOLEAN : ImportRemoveFinish(ok)
    \/ ImportAfterRemove
    \/ ImportAwaitThrows

SpecObject == InitObject /\ [][NextObject]_vars

\* The asset of an object graph that is the object ref, if there is one.
AssetByRef(objects, ref) ==
    CHOOSE a \in AssetsOf(objects) : a.ref = ref

\* C6: exportObject deletes its scoped export directory on every completion:
\* once the call has resolved or rejected the directory no longer exists.
C6_ExportDirectoryDeleted ==
    export.promise \in {"resolved", "rejected"} => ~exportDir.exists

\* An export bundle (object.json and the files beside it) of the running
\* export: the picture and sound entries are as many as in the payload, and
\* every non-default one is named by an identifier minted during the export,
\* different from every identifier of the payload, with its files in the
\* bundle under the new identifier.
SelfContained(json, files) ==
    /\ json.exists
    /\ Len(json.objects) = Len(export.before)
    /\ \A i \in 1..Len(json.objects) :
          /\ Len(json.objects[i].pictures) = Len(export.before[i].pictures)
          /\ Len(json.objects[i].sounds) = Len(export.before[i].sounds)
          /\ \A j \in 1..Len(json.objects[i].pictures) :
                LET a == json.objects[i].pictures[j] IN
                ~IsDefaultAsset("picture", a) =>
                    /\ a.filename \in (export.objectId + 1)..(nextId - 1)
                    /\ a.filename \notin { b.filename : b \in AssetsOf(export.before) }
                    /\ PictureFiles(a) \subseteq files
          /\ \A j \in 1..Len(json.objects[i].sounds) :
                LET a == json.objects[i].sounds[j] IN
                ~IsDefaultAsset("sound", a) =>
                    /\ a.filename \in (export.objectId + 1)..(nextId - 1)
                    /\ a.filename \notin { b.filename : b \in AssetsOf(export.before) }
                    /\ SoundFiles(a) \subseteq files

\* C7: in a successful exportObject the serialized object.json references,
\* for every non-default picture and sound, an identifier minted during that
\* export that differs from the identifiers of the workspace, and the files
\* of the asset are in the export directory under the new identifier; the
\* number of entries is unchanged.  Stated of the export directory while it
\* is packed and of the archive the pack has written.
C7_ExportIsSelfContained ==
    /\ export.step.pack = "running" => SelfContained(exportDir.json, exportDir.files)
    /\ export.promise = "resolved" =>
          \E f \in destFiles :
              f[1] = export.filePath /\ SelfContained(f[2], f[3])

\* An export of two objects with three user assets has resolved.
C7_Witness ==
    /\ export.promise = "resolved"
    /\ Len(export.before) = 2
    /\ Cardinality({ k \in 1..Len(export.mem) : export.mem[k].st = "done" }) = 3
    /\ \E k \in 1..Len(export.mem) : export.mem[k].st = "skip"

\* C8: once the copy of an asset has failed, object.json is not written, the
\* pack is not run and the call never resolves; it rejects with the error of
\* the copy that failed first, whatever the sibling copies do.  (When the
\* walk itself threw, the call had been rejected before any copy finished.)
C8_CopyFailureAbortsExport ==
    (\E k \in 1..Len(export.mem) : export.mem[k].st = "failed") =>
        /\ export.promise # "resolved"
        /\ export.step.write = "none"
        /\ export.step.pack = "none"
        /\ ~exportDir.json.exists
        /\ \A f \in destFiles : f[1] # export.filePath
        /\ export.pc = "done" =>
              /\ export.promise = "rejected"
              /\ export.err = IF WalkThrows(export.before)
                              THEN <<"TypeError", 0>>
                              ELSE <<"copy", Head(export.failed)>>

\* The export has rejected with the error of a failed copy while a sibling
\* copied its files and took its new identifier.
C8_Witness ==
    /\ export.promise = "rejected"
    /\ export.err[1] = "copy"
    /\ \E k \in 1..Len(export.mem) : export.mem[k].st = "done"
    /\ \E k \in 1..Len(export.mem) :
          export.mem[k].st = "failed" /\ k # Head(export.failed)

\* An asset whose fileurl is one of the known default paths of its kind.
KnownDefault(kind, asset) ==
    \/ kind = "picture" /\ asset.fileurl \in DefaultPicturePath
    \/ kind = "sound" /\ asset.fileurl \in DefaultSoundPath

\* C9: for an asset whose fileurl is a known default path, neither the
\* export pipeline nor importObject issues a file copy or changes the
\* filename: the asset comes out as the object it was, with the identifier
\* it came in with.
C9_DefaultAssetsPassThrough ==
    /\ \A k \in 1..Len(export.mem) :
          LET m == export.mem[k]
              a == AssetByRef(memObject, m.ref)
          IN  KnownDefault(m.kind, a) =>
                /\ m.st = "skip"
                /\ m.newFileId = 0
                /\ a.filename = AssetByRef(export.before, m.ref).filename
                /\ \A f \in exportDir.files : f[2] # a.filename
    /\ \A k \in 1..Len(import.mem) :
          LET m == import.mem[k] IN
          KnownDefault(m.kind, m.asset) =>
                /\ m.st \in {"wait", "skip"}
                /\ m.newFileId = 0
                /\ m.result = m.asset
                /\ \A f \in workspace : f[2] # m.asset.filename
                /\ import.phase[m.obj].st = "done" =>
                      LET entry == IF m.kind = "picture"
                                   THEN memResult[m.obj].pictures[m.pos]
                                   ELSE memResult[m.obj].sounds[m.pos]
                      IN  /\ entry.ref = m.asset.ref
                          /\ entry.filename = m.asset.filename

\* An import has resolved in which a default picture and a default sound
\* were passed through beside user assets that were copied.
C9_Witness ==
    /\ import.promise = "resolved"
    /\ \E k \in 1..Len(import.mem) :
          import.mem[k].kind = "picture" /\ import.mem[k].st = "skip"
    /\ \E k \in 1..Len(import.mem) :
          import.mem[k].kind = "sound" /\ import.mem[k].st = "skip"
    /\ \E k \in 1..Len(import.mem) : import.mem[k].st = "done"

\* C10: when importObject resolves, for every object whose selectedPictureId
\* is the id of one of its pictures, selectedPicture is the very entry now
\* stored in sprite.pictures with that id (the untouched entry for a default
\* picture, the new copy for a user picture) and selectedPictureId is still
\* that id, in whatever order the pictures completed.
C10_SelectedPictureIsStoredEntry ==
    import.promise = "resolved" =>
        \A i \in 1..Len(memResult) :
            LET o == memResult[i]
                b == import.before[i]
            IN  \A j \in 1..Len(b.pictures) :
                    b.pictures[j].id = b.selectedPictureId =>
                        /\ o.selectedPictureId = b.selectedPictureId
                        /\ o.pictures[j].id = b.selectedPictureId
                        /\ o.selectedPicture = o.pictures[j].ref
                        /\ IF KnownDefault("picture", b.pictures[j])
                           THEN o.pictures[j].ref = b.pictures[j].ref
                           ELSE /\ o.pictures[j].ref \notin
                                      { a.ref : a \in AssetsOf(import.before) }
                                /\ o.pictures[j].filename > import.objectId

\* An import of two objects has resolved, one with a default picture
\* selected and one with a user picture selected.
C10_Witness ==
    /\ import.promise = "resolved"
    /\ Len(memResult) = 2
    /\ memResult[1].selectedPicture = DefaultPicture.ref
    /\ memResult[2].selectedPicture > import.objectId

-----------------------------------------------------------------------------
(* changeObjectsPath, one loop iteration at a time                          *)

MaxWalkObjects == 2

\* The names of Constants.replaceStrategy
Strategies == {"fromExternal", "toExternal", "toExternalDeleteUrl"}

\* Objects a caller may hand to changeObjectsPath: as archives hold them and
\* as an open project holds them.
WalkSamples ==
    { CurrentObject, LegacyObject, NoSpriteObject, OtherObject,
      [CurrentObject EXCEPT
          !.pictures = << [UserPicture EXCEPT !.fileurl = <<"int", 11>>],
                          [DefaultPicture EXCEPT !.fileurl = <<"dint", 1>>] >>,
          !.sounds = << [UserSound EXCEPT !.fileurl = <<"int", 12>>] >>],
      [LegacyObject EXCEPT
          !.pictures = << [UserPicture EXCEPT !.fileurl = <<"int", 11>>],
                          PlaceholderPicture >>] }

WalkInputs == UNION { [1..n -> WalkSamples] : n \in 0..MaxWalkObjects }

\* changeObjectsPath has no return statement.
ChangeObjectsPathReturn(objects) == "undefined"

\* changeObjectsPath(objects, replaceStrategy) is called.
ChangeObjectsPathCall(objects, replaceStrategy) ==
    /\ pathWalk.pc = "idle"
    /\ pathWalk' = [IdleWalk EXCEPT !.pc = "walking", !.objects = objects,
                       !.before = objects, !.replaceStrategy = replaceStrategy,
                       !.i = 1, !.list = "pictures", !.j = 1]
    /\ UNCHANGED <<workspace, nextId, destFiles, projectVars, exportVars, importVars, batch, canvas>>

\* lines 117-119: an object without a sprite is left alone
WalkObject ==
    /\ pathWalk.pc = "walking"
    /\ pathWalk.i <= Len(pathWalk.objects)
    /\ ~pathWalk.objects[pathWalk.i].hasSprite
    /\ pathWalk' = [pathWalk EXCEPT !.i = @ + 1, !.list = "pictures", !.j = 1]
    /\ UNCHANGED <<workspace, nextId, destFiles, projectVars, exportVars, importVars, batch, canvas>>

\* lines 122-128: one iteration of pictures.forEach
WalkPicture ==
    LET i == pathWalk.i
        j == pathWalk.j
    IN  /\ pathWalk.pc = "walking"
        /\ i <= Len(pathWalk.objects)
        /\ pathWalk.objects[i].hasSprite
        /\ pathWalk.list = "pictures"
        /\ j <= Len(pathWalk.objects[i].pictures)
        /\ pathWalk' = [pathWalk EXCEPT
              !.objects[i].pictures[j] = ChangePath(@, pathWalk.replaceStrategy),
              !.calls = IF Replaces(pathWalk.objects[i].pictures[j])
                        THEN Append(@, <<i, "pictures", j>>) ELSE @,
              !.j = @ + 1]
        /\ UNCHANGED <<workspace, nextId, destFiles, projectVars, exportVars, importVars, batch, canvas>>

\* lines 129-135: one iteration of sounds.forEach
WalkSound ==
    LET i == pathWalk.i
        j == pathWalk.j
    IN  /\ pathWalk.pc = "walking"
        /\ i <= Len(pathWalk.objects)
        /\ pathWalk.objects[i].hasSprite
        /\ pathWalk.list = "sounds"
        /\ j <= Len(pathWalk.objects[i].sounds)
        /\ pathWalk' = [pathWalk EXCEPT
              !.objects[i].sounds[j] = ChangePath(@, pathWalk.replaceStrategy),
              !.calls = IF Replaces(pathWalk.objects[i].sounds[j])
                        THEN Append(@, <<i, "sounds", j>>) ELSE @,
              !.j = @ + 1]
        /\ UNCHANGED <<workspace, nextId, destFiles, projectVars, exportVars, importVars, batch, canvas>>

\* A forEach over the pictures or the sounds of an object has ended.
WalkAdvance ==
    LET i == pathWalk.i IN
    /\ pathWalk.pc = "walking"
    /\ i <= Len(pathWalk.objects)
    /\ pathWalk.objects[i].hasSprite
    /\ \/ /\ pathWalk.list = "pictures"
          /\ pathWalk.j > Len(pathWalk.objects[i].pictures)
          /\ pathWalk' = [pathWalk EXCEPT !.list = "sounds", !.j = 1]
       \/ /\ pathWalk.list = "sounds"
          /\ pathWalk.j > Len(pathWalk.objects[i].sounds)
          /\ pathWalk' = [pathWalk EXCEPT !.i = @ + 1, !.list = "pictures", !.j = 1]
    /\ UNCHANGED <<workspace, nextId, destFiles, projectVars, exportVars, importVars, batch, canvas>>

\* line 137: objects.forEach has ended and the function returns
WalkReturn ==
    /\ pathWalk.pc = "walking"
    /\ pathWalk.i > Len(pathWalk.objects)
    /\ pathWalk' = [pathWalk EXCEPT !.pc = "returned",
                       !.returned = ChangeObjectsPathReturn(pathWalk.objects)]
    /\ UNCHANGED <<workspace, nextId, destFiles, projectVars, exportVars, importVars, batch, canvas>>

InitWalk ==
    /\ workspace = {}
    /\ wsProjectJson = NoDescriptor
    /\ nextId = 20
    /\ load = [p \in Calls |-> IdleLoad]
    /\ save = IdleSave
    /\ memProject = NoDescriptor
    /\ destFiles = {}
    /\ InitNoObject

NextWalk ==
    \/ \E objects \in WalkInputs, replaceStrategy \in Strategies :
          ChangeObjectsPathCall(objects, replaceStrategy)
    \/ WalkObject
    \/ WalkPicture
    \/ WalkSound
    \/ WalkAdvance
    \/ WalkReturn

SpecWalk == InitWalk /\ [][NextWalk]_vars

\* C13: changeObjectsPath returns the project/object graph reference it was
\* given, not a copy and not an empty value.
C13_WalkReturnsItsArgument ==
    pathWalk.pc = "returned" => pathWalk.returned = "argument"

\* How many times the strategy was called for the asset at a position.
CallsFor(i, list, j) ==
    Cardinality({ c \in 1..Len(pathWalk.calls) : pathWalk.calls[c] = <<i, list, j>> })

\* What a list of assets has to be after the walk, given what it was.
Rewritten(i, list, after, was) ==
    /\ Len(after) = Len(was)
    /\ \A j \in 1..Len(was) :
          IF HasUrl(was[j].fileurl)
          THEN /\ after[j] = [was[j] EXCEPT
                       !.fileurl = Replace(pathWalk.replaceStrategy, was[j].fileurl)]
               /\ CallsFor(i, list, j) = 1
          ELSE /\ after[j] = was[j]
               /\ CallsFor(i, list, j) = 0

\* C14: when changeObjectsPath has returned, the strategy has been applied
\* exactly once to the fileurl of every picture and sound that has one, in
\* every object that has a sprite; objects without a sprite, assets without
\* a fileurl, every other attribute, and the number and order of objects,
\* pictures and sounds are as they were.
C14_WalkRewritesOnlyFileurls ==
    pathWalk.pc = "returned" =>
        /\ Len(pathWalk.objects) = Len(pathWalk.before)
        /\ \A i \in 1..Len(pathWalk.before) :
              LET was == pathWalk.before[i]
                  after == pathWalk.objects[i]
              IN  IF ~was.hasSprite
                  THEN /\ after = was
                       /\ \A c \in 1..Len(pathWalk.calls) : pathWalk.calls[c][1] # i
                  ELSE /\ [after EXCEPT !.pictures = was.pictures,
                                        !.sounds = was.sounds] = was
                       /\ Rewritten(i, "pictures", after.pictures, was.pictures)
                       /\ Rewritten(i, "sounds", after.sounds, was.sounds)

\* A walk has returned over an object without a sprite and an object with a
\* picture that has no fileurl, and it has changed a fileurl.
C14_Witness ==
    /\ pathWalk.pc = "returned"
    /\ \E i \in 1..Len(pathWalk.before) : ~pathWalk.before[i].hasSprite
    /\ \E a \in AssetsOf(pathWalk.before) : ~HasUrl(a.fileurl)
    /\ pathWalk.objects # pathWalk.before

-----------------------------------------------------------------------------
(* importPicturesToTemp / importSoundsToTemp: batches of external files     *)

MaxBatch == 2

\* File name extensions as the workspace's file names carry them.
ExtChars(ext) ==
    CASE ext = ".png" -> <<".", "p", "n", "g">>
      [] ext = ".jpg" -> <<".", "j", "p", "g">>
      [] ext = ".mp3" -> <<".", "m", "p", "3">>
      [] ext = ".wav" -> <<".", "w", "a", "v">>
      [] OTHER -> <<>>

\* path.extname(filePath), as the string that is appended to a file name
OriginalFileExt(filePath) ==
    CHOOSE ext \in {".png", ".jpg", ".mp3", ".wav", ""} : ExtChars(ext) = ExtName(filePath)

\* External files the caller may pass to the batch imports.
PicturePaths ==
    { <<"p", ".", "p", "n", "g">>,
      <<"d", ".", "x", "/", "q", ".", "j", "p", "g">>,
      <<"d", "/", "n">> }

SoundPaths == { <<"s", ".", "m", "p", "3">>, <<"t", ".", "w", "a", "v">> }

BatchInputs(paths) == UNION { [1..n -> paths] : n \in 0..MaxBatch }

\* importPictureToTemp's return value, lines 427-436: a new object, its
\* extension under the key `extension`.
TempPicture(newFileId, originalFileExt) ==
    [ref |-> newFileId, id |-> newFileId, filename |-> newFileId,
     fileurl |-> <<"int", newFileId>>, ext |-> "", extension |-> originalFileExt]

\* importSoundToTemp's return value, lines 516-525: a new object, its
\* extension under the key `ext`.
TempSound(newFileId, originalFileExt) ==
    [ref |-> newFileId, id |-> newFileId, filename |-> newFileId,
     fileurl |-> <<"int", newFileId>>, ext |-> originalFileExt, extension |-> ""]

\* lines 410 and 508: the identifier the k-th pipeline of a batch mints
BatchFileId_Same(counter, k) == counter
BatchFileId(counter, k) == NthFileId(counter, k)

\* importPictureToTemp / importSoundToTemp up to their first await, for every
\* file of the batch: an identifier is minted and the copy issued.
\*   pc      where the pipeline stands: "copy", "second" (the thumbnail
\*           write or the metadata parse), "done" or "failed"
\*   file    the status of the copy (lines 415, 512)
\*   second  the status of the thumbnail write (421) or of the parse (514)
\*   st      the pipeline's promise, as Promise.all sees it
StartBatchMembers(kind, filePaths, counter) ==
    [k \in 1..Len(filePaths) |->
        [kind |-> kind, filePath |-> filePaths[k],
         ext |-> OriginalFileExt(filePaths[k]),
         newFileId |-> BatchFileId(counter, k),
         pc |-> "copy", file |-> "running", second |-> "none", st |-> "running",
         result |-> Asset(0, 0, 0, NoUrl, "")]]

\* The file a pipeline's copy writes and the one its second step writes.
MemberFile(m) ==
    <<IF m.kind = "sound" THEN "sound" ELSE "image", m.newFileId, m.ext>>

MemberThumbnail(m) == <<"thumb", m.newFileId, m.ext>>

\* The error Promise.all rejects with: that of the member that failed first.
FirstFailure_Last(failed) == failed[Len(failed)]
FirstFailure(failed) == Head(failed)

\* The batch and the canvas import are not run at the same time here: a
\* batch starts when no canvas import has been made, a canvas import when
\* no batch runs.
MayStartBatch == batch.pc = "idle" /\ canvas.pc = "idle"

\* importPicturesToTemp(filePaths), lines 394-398 and 408-415
ImportPicturesToTemp(filePaths) ==
    /\ MayStartBatch
    /\ batch' = [IdleBatch EXCEPT !.pc = "running", !.kind = "picture",
                    !.filePaths = filePaths, !.promise = "pending",
                    !.before = workspace,
                    !.mem = StartBatchMembers("picture", filePaths, nextId)]
    /\ nextId' = nextId + Len(filePaths)
    /\ UNCHANGED <<workspace, destFiles, projectVars, exportVars, importVars, pathWalk, canvas>>

\* importSoundsToTemp(filePaths), lines 494-496 and 506-512
ImportSoundsToTemp(filePaths) ==
    /\ MayStartBatch
    /\ batch' = [IdleBatch EXCEPT !.pc = "running", !.kind = "sound",
                    !.filePaths = filePaths, !.promise = "pending",
                    !.before = workspace,
                    !.mem = StartBatchMembers("sound", filePaths, nextId)]
    /\ nextId' = nextId + Len(filePaths)
    /\ UNCHANGED <<workspace, destFiles, projectVars, exportVars, importVars, pathWalk, canvas>>

\* FileUtils.copyFile(filePath, newPicturePath / newSoundPath) completes.
BatchCopyFinish(k, ok) ==
    LET m == batch.mem[k] IN
    /\ m.file = "running"
    /\ batch' = [batch EXCEPT !.mem[k].file = IF ok THEN "ok" ELSE "err"]
    /\ workspace' = IF ok THEN workspace \cup { MemberFile(m) } ELSE workspace
    /\ UNCHANGED <<nextId, destFiles, projectVars, exportVars, importVars, pathWalk, canvas>>

\* line 415 -> 421 (createThumbnailBuffer may throw), line 512 -> 514
BatchAfterCopy(k, bufferOk) ==
    LET m == batch.mem[k] IN
    /\ m.pc = "copy"
    /\ Awaited(m.file)
    /\ m.kind = "sound" => bufferOk
    /\ batch' = IF bufferOk
                THEN [batch EXCEPT !.mem[k].pc = "second", !.mem[k].second = "running"]
                ELSE [batch EXCEPT !.mem[k].pc = "failed", !.mem[k].st = "failed",
                                   !.failed = Append(@, k)]
    /\ UNCHANGED <<workspace, nextId, destFiles, projectVars, exportVars, importVars, pathWalk, canvas>>

\* FileUtils.writeFile(thumbnail buffer, newThumbnailPath) or
\* musicMetadata.parseFile(newSoundPath) completes.
BatchSecondFinish(k, ok) ==
    LET m == batch.mem[k] IN
    /\ m.second = "running"
    /\ (ok /\ m.kind = "sound") => MemberFile(m) \in workspace   \* parseFile reads it
    /\ batch' = [batch EXCEPT !.mem[k].second = IF ok THEN "ok" ELSE "err"]
    /\ workspace' = IF ok /\ m.kind = "picture"
                    THEN workspace \cup { MemberThumbnail(m) } ELSE workspace
    /\ UNCHANGED <<nextId, destFiles, projectVars, exportVars, importVars, pathWalk, canvas>>

\* lines 427-436 (imageSizeOf may throw) and 516-525: the pipeline returns
BatchReturn(k, sizeOk) ==
    LET m == batch.mem[k] IN
    /\ m.pc = "second"
    /\ Awaited(m.second)
    /\ m.kind = "sound" => sizeOk
    /\ (sizeOk /\ m.kind = "picture") => MemberFile(m) \in workspace   \* imageSizeOf reads it
    /\ batch' = IF sizeOk
                THEN [batch EXCEPT !.mem[k].pc = "done", !.mem[k].st = "done",
                         !.mem[k].result = IF m.kind = "picture"
                                           THEN TempPicture(m.newFileId, m.ext)
                                           ELSE TempSound(m.newFileId, m.ext)]
                ELSE [batch EXCEPT !.mem[k].pc = "failed", !.mem[k].st = "failed",
                                   !.failed = Append(@, k)]
    /\ UNCHANGED <<workspace, nextId, destFiles, projectVars, exportVars, importVars, pathWalk, canvas>>

\* An awaited operation of a pipeline failed: the pipeline rejects.
BatchMemberThrows(k) ==
    LET m == batch.mem[k] IN
    /\ \/ m.pc = "copy" /\ Thrown(m.file)
       \/ m.pc = "second" /\ Thrown(m.second)
    /\ batch' = [batch EXCEPT !.mem[k].pc = "failed", !.mem[k].st = "failed",
                              !.failed = Append(@, k)]
    /\ UNCHANGED <<workspace, nextId, destFiles, projectVars, exportVars, importVars, pathWalk, canvas>>

\* Promise.all of lines 395 and 495 is fulfilled with the pipelines' results.
BatchResolve ==
    /\ batch.pc = "running"
    /\ Awaited(PromiseAll(batch.mem))
    /\ batch' = [batch EXCEPT !.pc = "done", !.promise = "resolved",
                              !.result = Results(batch.mem)]
    /\ UNCHANGED <<workspace, nextId, destFiles, projectVars, exportVars, importVars, pathWalk, canvas>>

\* Promise.all of lines 395 and 495 is rejected.
BatchReject ==
    /\ batch.pc = "running"
    /\ Thrown(PromiseAll(batch.mem))
    /\ batch' = [batch EXCEPT !.pc = "done", !.promise = "rejected",
                              !.err = <<"member", FirstFailure(batch.failed)>>]
    /\ UNCHANGED <<workspace, nextId, destFiles, projectVars, exportVars, importVars, pathWalk, canvas>>

-----------------------------------------------------------------------------
(* importPictureFromCanvas                                                  *)

\* Payloads of importPictureFromCanvas: data.file may be missing; prevFilename
\* 0 stands for none; 9 and 20 may name files of the workspace.
CanvasPayloads ==
    [hasFile : BOOLEAN, prevFilename : {0, 9, 20}, mode : {"edit", "new", "none"}]

\* lines 462-467: the identifier the picture is written under
CanvasPictureId_AnyMode(data, minted) ==
    IF data.prevFilename # 0 THEN data.prevFilename ELSE minted
CanvasPictureId(data, minted) ==
    IF data.prevFilename # 0 /\ data.mode = "edit" THEN data.prevFilename ELSE minted

\* The two writes of lines 473-478 as members of their Promise.all.
CanvasWrites ==
    LET St(status) == CASE status = "ok" -> "done"
                        [] status = "err" -> "failed"
                        [] OTHER -> "running"
    IN  << [st |-> St(canvas.image)], [st |-> St(canvas.thumb)] >>

\* importPictureFromCanvas(data) is called: lines 460-478 up to the await.
\* Without data.file the destructuring of line 461 throws in the executor,
\* outside the try: the promise is never settled.  createThumbnailBuffer may
\* throw after the image write was issued.
ImportPictureFromCanvas(data, bufferOk) ==
    /\ canvas.pc = "idle"
    /\ batch.pc = "idle" \/ batch.promise = "resolved"
    /\ data.prevFilename < nextId     \* a filename in use was minted earlier
    /\ IF ~data.hasFile
       THEN /\ bufferOk
            /\ canvas' = [IdleCanvas EXCEPT !.pc = "crashed", !.promise = "pending",
                             !.data = data, !.before = workspace]
            /\ UNCHANGED nextId
       ELSE /\ nextId' = nextId + 1
            /\ canvas' = [IdleCanvas EXCEPT
                  !.pc = IF bufferOk THEN "write" ELSE "done",
                  !.promise = IF bufferOk THEN "pending" ELSE "rejected",
                  !.err = IF bufferOk THEN @ ELSE <<"buffer", 0>>,
                  !.data = data, !.before = workspace,
                  !.minted = NthFileId(nextId, 1),
                  !.pictureId = CanvasPictureId(data, NthFileId(nextId, 1)),
                  !.image = "running",
                  !.thumb = IF bufferOk THEN "running" ELSE "none"]
    /\ UNCHANGED <<workspace, destFiles, projectVars, exportVars, importVars, pathWalk, batch>>

\* FileUtils.writeFile(image, imagePath) completes.
CanvasImageFinish(ok) ==
    /\ canvas.image = "running"
    /\ canvas' = [canvas EXCEPT !.image = IF ok THEN "ok" ELSE "err",
                                !.failed = IF ok THEN @ ELSE Append(@, "image")]
    /\ workspace' = IF ok THEN workspace \cup { <<"image", canvas.pictureId, ".png">> }
                    ELSE workspace
    /\ UNCHANGED <<nextId, destFiles, projectVars, exportVars, importVars, pathWalk, batch>>

\* FileUtils.writeFile(thumbnail buffer, thumbnailPath) completes.
CanvasThumbnailFinish(ok) ==
    /\ canvas.thumb = "running"
    /\ canvas' = [canvas EXCEPT !.thumb = IF ok THEN "ok" ELSE "err",
                                !.failed = IF ok THEN @ ELSE Append(@, "thumb")]
    /\ workspace' = IF ok THEN workspace \cup { <<"thumb", canvas.pictureId, ".png">> }
                    ELSE workspace
    /\ UNCHANGED <<nextId, destFiles, projectVars, exportVars, importVars, pathWalk, batch>>

\* line 473 -> 481-487: both writes are in; imageSizeOf reads the image
\* (it may throw) and the promise is resolved with the new picture.
CanvasResolve(sizeOk) ==
    /\ canvas.pc = "write"
    /\ Awaited(PromiseAll(CanvasWrites))
    /\ sizeOk => <<"image", canvas.pictureId, ".png">> \in workspace   \* imageSizeOf reads it
    /\ canvas' = IF sizeOk
                 THEN [canvas EXCEPT !.pc = "done", !.promise = "resolved",
                          !.size = "ok",
                          !.result = [ref |-> canvas.minted, id |-> 0,
                                      filename |-> canvas.pictureId,
                                      fileurl |-> <<"int", canvas.pictureId>>,
                                      ext |-> "", extension |-> ""]]
                 ELSE [canvas EXCEPT !.pc = "done", !.promise = "rejected",
                          !.size = "err", !.err = <<"size", 0>>]
    /\ UNCHANGED <<workspace, nextId, destFiles, projectVars, exportVars, importVars, pathWalk, batch>>

\* A write of lines 473-478 failed: the catch block rejects.
CanvasReject ==
    /\ canvas.pc = "write"
    /\ Thrown(PromiseAll(CanvasWrites))
    /\ canvas' = [canvas EXCEPT !.pc = "done", !.promise = "rejected",
                                !.err = <<FirstFailure(canvas.failed), 0>>]
    /\ UNCHANGED <<workspace, nextId, destFiles, projectVars, exportVars, importVars, pathWalk, batch>>

-----------------------------------------------------------------------------
(* The asset imports together                                               *)

InitAsset ==
    /\ workspace \in { {}, { <<"image", 9, ".png">>, <<"thumb", 9, ".png">> } }
    /\ wsProjectJson = NoDescriptor
    /\ nextId = 20
    /\ load = [p \in Calls |-> IdleLoad]
    /\ save = IdleSave
    /\ memProject = NoDescriptor
    /\ destFiles = {}
    /\ InitNoObject

\* The calls the application makes.
AssetCalls ==
    \/ \E filePaths \in BatchInputs(PicturePaths) : ImportPicturesToTemp(filePaths)
    \/ \E filePaths \in BatchInputs(SoundPaths) : ImportSoundsToTemp(filePaths)
    \/ \E data \in CanvasPayloads, bufferOk \in BOOLEAN : ImportPictureFromCanvas(data, bufferOk)

\* What the I/O layer and the event loop do once a call was made.
BatchSteps ==
    \/ \E k \in 1..Len(batch.mem), ok \in BOOLEAN : BatchCopyFinish(k, ok)
    \/ \E k \in 1..Len(batch.mem), bufferOk \in BOOLEAN : BatchAfterCopy(k, bufferOk)
    \/ \E k \in 1..Len(batch.mem), ok \in BOOLEAN : BatchSecondFinish(k, ok)
    \/ \E k \in 1..Len(batch.mem), sizeOk \in BOOLEAN : BatchReturn(k, sizeOk)
    \/ \E k \in 1..Len(batch.mem) : BatchMemberThrows(k)
    \/ BatchResolve
    \/ BatchReject

CanvasSteps ==
    \/ \E ok \in BOOLEAN : CanvasImageFinish(ok)
    \/ \E ok \in BOOLEAN : CanvasThumbnailFinish(ok)
    \/ \E sizeOk \in BOOLEAN : CanvasResolve(sizeOk)
    \/ CanvasReject

AssetSteps == BatchSteps \/ CanvasSteps

NextAsset == AssetCalls \/ AssetSteps

SpecAsset == InitAsset /\ [][NextAsset]_vars

\* Every I/O operation that was issued completes and every continuation that
\* can run is run by the event loop.
SpecAssetFair == SpecAsset /\ WF_vars(AssetSteps)

-----------------------------------------------------------------------------
(* Claims about the asset imports                                           *)

\* The files the workspace has gained since the batch was called.
BatchNewFiles == workspace \ batch.before

\* C11: a successful importPicturesToTemp or importSoundsToTemp of K files
\* returns K assets with pairwise distinct filenames, and the workspace has
\* gained exactly K files in the image (or sound) subtree and, for pictures,
\* exactly K thumbnail files, each under the filename of its asset.  (Stated
\* while no other import has written since.)
C11_BatchImportAddsKFiles ==
    (batch.promise = "resolved" /\ canvas.pc = "idle") =>
        LET K == Len(batch.filePaths)
            tree == IF batch.kind = "picture" THEN "image" ELSE "sound"
        IN  /\ Len(batch.result) = K
            /\ \A i, j \in 1..K : i # j => batch.result[i].filename # batch.result[j].filename
            /\ Cardinality({ f \in BatchNewFiles : f[1] = tree }) = K
            /\ Cardinality({ f \in BatchNewFiles : f[1] = "thumb" }) =
                  IF batch.kind = "picture" THEN K ELSE 0
            /\ Cardinality(BatchNewFiles) = IF batch.kind = "picture" THEN 2 * K ELSE K
            /\ \A i \in 1..K :
                  LET ext == OriginalFileExt(batch.filePaths[i]) IN
                  /\ <<tree, batch.result[i].filename, ext>> \in BatchNewFiles
                  /\ batch.kind = "picture" =>
                        <<"thumb", batch.result[i].filename, ext>> \in BatchNewFiles

\* A batch of as many pictures as the bound allows, twice the same file
\* among them, has resolved over a workspace that held files.
C11_Witness ==
    /\ batch.promise = "resolved"
    /\ canvas.pc = "idle"
    /\ batch.kind = "picture"
    /\ Len(batch.filePaths) = MaxBatch
    /\ batch.filePaths[1] = batch.filePaths[2]
    /\ batch.before # {}

\* C12: every call of a pipeline entry point eventually settles, resolved or
\* rejected, for every input and every outcome of the I/O; here for the
\* batch imports and importPictureFromCanvas.
C12_EveryCallSettles ==
    /\ (batch.promise = "pending") ~> (batch.promise \in {"resolved", "rejected"})
    /\ (canvas.promise = "pending") ~> (canvas.promise \in {"resolved", "rejected"})

\* C15: importPictureFromCanvas writes the image and the thumbnail under the
\* payload's previous filename, and returns it, exactly when the payload has
\* a previous filename and mode 'edit'; otherwise it writes under and returns
\* the identifier it minted and overwrites no file the workspace held.
C15_CanvasReusesIdOnlyOnEdit ==
    canvas.pc \in {"write", "done"} =>
        LET edit == canvas.data.prevFilename # 0 /\ canvas.data.mode = "edit"
            files == { <<"image", canvas.pictureId, ".png">>,
                       <<"thumb", canvas.pictureId, ".png">> }
        IN  /\ edit => canvas.pictureId = canvas.data.prevFilename
            /\ ~edit => /\ canvas.pictureId = canvas.minted
                        /\ canvas.pictureId # canvas.data.prevFilename
                        /\ files \cap canvas.before = {}
            /\ (workspace \ canvas.before) \subseteq files
            /\ canvas.image = "ok" => <<"image", canvas.pictureId, ".png">> \in workspace
            /\ canvas.thumb = "ok" => <<"thumb", canvas.pictureId, ".png">> \in workspace
            /\ canvas.promise = "resolved" =>
                  /\ canvas.result.filename = canvas.pictureId
                  /\ files \subseteq workspace

\* An edit of a picture of the workspace has resolved.
C15_Witness ==
    /\ canvas.promise = "resolved"
    /\ canvas.data.mode = "edit"
    /\ canvas.data.prevFilename = 9
    /\ <<"image", 9, ".png">> \in canvas.before

\* C17: for every asset the imports return, the source files the export
\* pipeline computes from the asset record (lines 211-217 and 238-245:
\* filename, subtree and sanitized ext) are the files the import wrote.
C17_ExportFindsImportedFiles ==
    /\ \A k \in 1..Len(batch.mem) :
          LET m == batch.mem[k] IN
          m.st = "done" =>
             (IF m.kind = "picture" THEN PictureFiles(m.result)
                                    ELSE SoundFiles(m.result)) \subseteq workspace
    /\ canvas.promise = "resolved" => PictureFiles(canvas.result) \subseteq workspace

\* The members of a running batch are left alone when the batch rejects.
NotCancelled ==
    (batch.promise = "pending" /\ batch'.promise = "rejected") =>
        (batch'.mem = batch.mem /\ workspace' = workspace)

BatchStepsSequential ==
    \A k \in 1..Len(batch.mem) :
        LET m == batch.mem[k] IN
        /\ m.second # "none" => (m.file = "ok" /\ MemberFile(m) \in workspace)
        /\ m.st = "done" =>
              /\ m.file = "ok" /\ m.second = "ok"
              /\ MemberFile(m) \in workspace
              /\ m.kind = "picture" => MemberThumbnail(m) \in workspace

\* C19 as stated: in importPictureToTemp, importSoundToTemp and
\* importPictureFromCanvas the asset's file is fully written before the
\* thumbnail step starts, and dimension or duration extraction starts only
\* after the file it reads has been written.
C19_AssetStepsSequential ==
    /\ BatchStepsSequential
    /\ canvas.thumb # "none" => canvas.image = "ok"
    /\ canvas.size # "none" => canvas.image = "ok"

\* C19 as amended: the steps are sequential in importPictureToTemp and
\* importSoundToTemp; importPictureFromCanvas issues the image write and the
\* thumbnail write together and reads the dimension only after both have
\* completed.
C19_SequentialButCanvasWrites ==
    /\ BatchStepsSequential
    /\ canvas.thumb # "none" => canvas.image # "none"
    /\ canvas.size # "none" => (canvas.image = "ok" /\ canvas.thumb = "ok")

\* After a batch of a picture has resolved, a canvas import has its thumbnail
\* written while its image write is still running.
C19_Witness ==
    /\ batch.promise = "resolved"
    /\ batch.kind = "picture"
    /\ Len(batch.mem) >= 1
    /\ canvas.thumb = "ok"
    /\ canvas.image = "running"

-----------------------------------------------------------------------------
(* Claims about importObject's unpack directory                             *)

\* C20: whenever importObject resolves its unpack directory has been
\* deleted, and the deletion is issued only after the import of every
\* picture and sound of every object of the archive has completed: no asset
\* import is reading from the directory once its removal has started.
C20_UnpackDirectoryDeletedLast ==
    /\ import.promise = "resolved" =>
          (import.step.remove = "ok" /\ ~importDir.exists)
    /\ import.step.remove # "none" =>
          /\ \A i \in 1..Len(import.phase) : import.phase[i].st = "done"
          /\ \A k \in 1..Len(import.mem) : import.mem[k].st \in {"skip", "done"}
    /\ \A k \in 1..Len(import.mem) :
          import.mem[k].st \in {"copy1", "copy2", "meta"} =>
              (import.step.remove = "none" /\ importDir.exists)

\* An import of two objects with three user assets has resolved.
C20_Witness ==
    /\ import.promise = "resolved"
    /\ ~importDir.exists
    /\ Len(import.phase) = 2
    /\ Cardinality({ k \in 1..Len(import.mem) : import.mem[k].st = "done" }) = 3

-----------------------------------------------------------------------------
(* A session: project loads and asset imports on the one workspace          *)

\* The archives, file lists and payloads the calls of a session are made with.
SessionArchives ==
    { Descriptor(TRUE, TRUE, TRUE, <<LegacyObject>>, <<>>),
      Descriptor(TRUE, TRUE, TRUE, <<>>, <<>>) }

SessionFilePath == <<"a", ".", "e", "n", "t">>

SessionPictures == { << <<"p", ".", "p", "n", "g">> >> }

SessionPayloads == [hasFile : {TRUE}, prevFilename : {9}, mode : {"edit"}]

\* No call is pending: the promise of every call made so far has settled.
NoCallPending ==
    /\ \A q \in Calls : load[q].promise # "pending"
    /\ batch.promise # "pending"
    /\ canvas.promise # "pending"

\* The steps of a loadProject call after the call itself.
LoadSteps1(p) ==
    \/ \E ok \in BOOLEAN : ResetFinish(p, ok)
    \/ LoadAfterReset(p)
    \/ \E ok \in BOOLEAN : MkdirFinish(p, ok)
    \/ LoadAfterMkdir(p)
    \/ \E ok \in BOOLEAN : UnpackFinish(p, ok)
    \/ LoadAfterUnpack(p)
    \/ LoadAwaitThrows(p)
    \/ \E ok \in BOOLEAN : ReadFinish(p, ok)
    \/ ReadCallback(p)
    \/ ConvertCallback(p)

\* The caller makes a call only when no call is pending; a session has one
\* import, a batch of pictures or a canvas import.
NextSession ==
    \/ \E p \in Calls, archive \in SessionArchives :
          NoCallPending /\ LoadProject(p, SessionFilePath, archive)
    \/ \E filePaths \in SessionPictures : NoCallPending /\ ImportPicturesToTemp(filePaths)
    \/ \E data \in SessionPayloads, bufferOk \in BOOLEAN :
          NoCallPending /\ batch.pc = "idle" /\ ImportPictureFromCanvas(data, bufferOk)
    \/ \E p \in Calls : LoadSteps1(p)
    \/ AssetSteps

SpecSession == InitAsset /\ [][NextSession]_vars

\* A loadProject call resolves in this step.
Resolves(p) == load[p].promise = "pending" /\ load'[p].promise = "resolved"

\* C22 as stated: when no call overlaps a loadProject, at the moment the
\* loadProject resolves the workspace holds only what was unpacked from its
\* archive.
C22_LoadLeavesOnlyItsArchive ==
    [][\A p \in Calls :
          Resolves(p) => workspace' = ArchiveFiles(load[p].archive)]_vars

\* C22 as amended: the same, when moreover no I/O of an earlier import was
\* still in flight when loadProject was called.
C22_QuietLoadLeavesOnlyItsArchive ==
    [][\A p \in Calls :
          (Resolves(p) /\ ~load[p].overlaps) =>
              workspace' = ArchiveFiles(load[p].archive)]_vars

\* A second load has resolved after a first load and a batch import that ran
\* in between over the first archive's files; the batch's files are gone.
C22_Witness ==
    /\ load[1].promise = "resolved"
    /\ load[2].promise = "resolved"
    /\ ~load[2].overlaps
    /\ batch.promise = "resolved"
    /\ Len(batch.mem) >= 1
    /\ batch.before = ArchiveFiles(load[1].archive)
    /\ batch.before # {}
    /\ ArchiveFiles(load[2].archive) = {}
    /\ workspace = {}


-----------------------------------------------------------------------------
(* Calls that overlap: loadProject while an import or another loadProject   *)
(* is in flight                                                             *)

\* Two archives with different asset files; the calls open them in turn.
OverlapArchives ==
    << Descriptor(TRUE, TRUE, TRUE, <<LegacyObject>>, <<>>),
       Descriptor(TRUE, TRUE, TRUE, <<OtherObject>>, <<>>) >>

ArchiveOfCall(p) == OverlapArchives[((p - 1) % Len(OverlapArchives)) + 1]

OverlapPictures ==
    { << <<"p", ".", "p", "n", "g">>, <<"q", ".", "p", "n", "g">> >> }

\* At most one loadProject call is pending.
AtMostOnePending ==
    \A q, r \in Calls :
        (load[q].promise = "pending" /\ load[r].promise = "pending") => q = r

\* The caller makes a loadProject call while a batch import or one earlier
\* loadProject has not ended.  The batch import is called before
\* the first loadProject.  The operations on the file system succeed here, but
\* for the reads of files another call may have removed (project.json, the
\* copied picture); their failures are the subject of SpecLoad and SpecAsset.
NextOverlap ==
    \/ \E p \in Calls :
          AtMostOnePending /\ LoadProject(p, SessionFilePath, ArchiveOfCall(p))
    \/ \E filePaths \in OverlapPictures :
          load[1].pc = "idle" /\ ImportPicturesToTemp(filePaths)
    \/ \E p \in Calls :
          \/ ResetFinish(p, TRUE)
          \/ LoadAfterReset(p)
          \/ MkdirFinish(p, TRUE)
          \/ LoadAfterMkdir(p)
          \/ UnpackFinish(p, TRUE)
          \/ LoadAfterUnpack(p)
          \/ \E ok \in BOOLEAN : ReadFinish(p, ok)
          \/ ReadCallback(p)
          \/ ConvertCallback(p)
    \/ \E k \in 1..Len(batch.mem) :
          \/ BatchCopyFinish(k, TRUE)
          \/ BatchAfterCopy(k, TRUE)
          \/ BatchSecondFinish(k, TRUE)
          \/ \E sizeOk \in BOOLEAN : BatchReturn(k, sizeOk)
    \/ BatchResolve
    \/ BatchReject

InitOverlap == InitAsset /\ workspace = {}

SpecOverlap == InitOverlap /\ [][NextOverlap]_vars

\* The next call slot of loadProject.
NextCall(p) ==
    /\ load[p].pc = "idle"
    /\ \A q \in Calls : q < p => load[q].pc # "idle"

\* C23: the workspace is not locked.  While an import pipeline or another
\* loadProject is in flight, a loadProject call is accepted all the same and
\* its resetSaveDirectory, once issued, can empty the workspace.
C23_NoLockOnWorkspace ==
    /\ \A p \in Calls :
          (NextCall(p) /\ (InFlight \/ \E q \in Calls : load[q].promise = "pending"))
              => ENABLED LoadProject(p, SessionFilePath, ArchiveOfCall(p))
    /\ \A p \in Calls :
          (load[p].step.reset = "running" /\ InFlight)
              => ENABLED ResetFinish(p, TRUE)

\* Both outcomes of C23 in one state.  A batch import resolved with a
\* picture whose file is not in the workspace: a loadProject called while
\* the batch was in flight reset the workspace after the copy.  Two
\* loadProject calls with different archives both resolved and the files of
\* both archives are in the workspace: they overlapped, the second reset ran
\* before the first unpack.
C23_Witness ==
    /\ batch.promise = "resolved"
    /\ \E k \in 1..Len(batch.mem) :
          /\ batch.mem[k].st = "done"
          /\ MemberFile(batch.mem[k]) \notin workspace
    /\ load[1].overlaps
    /\ load[1].promise = "resolved"
    /\ load[2].promise = "resolved"
    /\ ArchiveFiles(load[1].archive) # {}
    /\ ArchiveFiles(load[2].archive) # {}
    /\ ArchiveFiles(load[1].archive) \cap ArchiveFiles(load[2].archive) = {}
    /\ ArchiveFiles(load[1].archive) \cup ArchiveFiles(load[2].archive) \subseteq workspace

====
